---- MODULE Spec2Model ----
(***************************************************************************)
(* Verification model of the NRD domain surveillance pipeline              *)
(* (src/main.py, src/screenshot_hybrid.py, src/backend/db_manager.py).     *)
(*                                                                         *)
(* Strings are sequences of one-character strings, so that the string      *)
(* operations of the code (strip, lower, split, startswith, rstrip, regex  *)
(* search) are computed character by character.                            *)
(***************************************************************************)
EXTENDS Integers, Sequences, FiniteSets, Bags, TLC

(***************************************************************************)
(* Bounds of the model                                                     *)
(***************************************************************************)

\* longest raw string handed to normalize_domain in NormSpec
MaxLen == 4

\* days of the download window; the code's window is range(7), the model
\* explores the same loop over a shorter window
WindowDays == 2

\* number of times the calendar day advances
MaxTicks == 1

\* number of runs of parse_and_filter_domains (each appends to the
\* cumulative candidate file)
MaxRuns == 2

None == "None"

VARIABLES
  \* which of the modelled upstream publication schedules is in force
  upstream_shift

(***************************************************************************)
(* String helpers (Python str methods used by the code)                    *)
(***************************************************************************)

\* characters of the raw strings explored in NormSpec
Alphabet == {"w", ".", "/", ":", " ", "a", "A"}

\* str.lower() on one character
LowerChar(c) ==
  CASE c = "A" -> "a"
    [] c = "B" -> "b"
    [] c = "S" -> "s"
    [] c = "W" -> "w"
    [] OTHER -> c

\* str.lower()
Lower(s) == [i \in 1..Len(s) |-> LowerChar(s[i])]

\* whitespace as str.strip() sees it
IsSpace(c) == c \in {" ", "\t"}

\* number of leading characters of s that satisfy the set cs
RECURSIVE LeadingIn(_, _)
LeadingIn(s, cs) ==
  IF s = <<>> \/ Head(s) \notin cs THEN 0 ELSE 1 + LeadingIn(Tail(s), cs)

\* number of trailing characters of s that are in cs
RECURSIVE TrailingIn(_, _)
TrailingIn(s, cs) ==
  IF s = <<>> \/ s[Len(s)] \notin cs THEN 0
  ELSE 1 + TrailingIn(SubSeq(s, 1, Len(s) - 1), cs)

\* str.rstrip(chars)
RStrip(s, cs) == SubSeq(s, 1, Len(s) - TrailingIn(s, cs))

\* str.lstrip(chars)
LStrip(s, cs) == SubSeq(s, LeadingIn(s, cs) + 1, Len(s))

\* str.strip()
Strip(s) == LStrip(RStrip(s, {" ", "\t"}), {" ", "\t"})

\* str.startswith(p)
StartsWith(s, p) == Len(s) >= Len(p) /\ SubSeq(s, 1, Len(p)) = p

\* str.endswith(p)
EndsWith(s, p) ==
  Len(s) >= Len(p) /\ SubSeq(s, Len(s) - Len(p) + 1, Len(s)) = p

\* positions at which sub occurs in s
Occurrences(s, sub) ==
  {i \in 1..(Len(s) - Len(sub) + 1) : SubSeq(s, i, i + Len(sub) - 1) = sub}

\* `sub in s`
Contains(s, sub) == Occurrences(s, sub) # {}

\* first position of sub in s (only used when Contains(s, sub))
Find(s, sub) ==
  CHOOSE i \in Occurrences(s, sub) : \A j \in Occurrences(s, sub) : i <= j

\* s.split(sep, 1)[1]
AfterFirst(s, sep) == SubSeq(s, Find(s, sep) + Len(sep), Len(s))

\* s.split(sep, 1)[0]
BeforeFirst(s, sep) == SubSeq(s, 1, Find(s, sep) - 1)

(***************************************************************************)
(* normalize_domain (src/main.py)                                          *)
(***************************************************************************)

\* if "://" in d: d = d.split("://", 1)[1]
CutScheme(d) ==
  IF Contains(d, <<":", "/", "/">>) THEN AfterFirst(d, <<":", "/", "/">>) ELSE d

\* if "/" in d: d = d.split("/", 1)[0]
CutPath(d) == IF Contains(d, <<"/">>) THEN BeforeFirst(d, <<"/">>) ELSE d

\* if d.startswith("www."): d = d[4:]
CutWww(d) ==
  IF StartsWith(d, <<"w", "w", "w", ".">>) THEN SubSeq(d, 5, Len(d)) ELSE d

normalize_domain(domain) ==
  RStrip(CutWww(CutPath(CutScheme(Lower(Strip(domain))))), {"."})


(***************************************************************************)
(* List helpers (Python list / dict / sorted)                              *)
(***************************************************************************)

Range(s) == {s[i] : i \in 1..Len(s)}

\* list(dict.fromkeys(s)): duplicates dropped, first occurrences kept in order
FirstOccurrences(s) == {i \in 1..Len(s) : \A j \in 1..(i - 1) : s[j] # s[i]}

\* the n-th smallest member of a set of numbers
Nth(idx, n) == CHOOSE i \in idx : Cardinality({j \in idx : j <= i}) = n

Dedupe(s) ==
  [n \in 1..Cardinality(FirstOccurrences(s)) |-> s[Nth(FirstOccurrences(s), n)]]

\* the characters of the model in code-point order
CharOrder ==
  <<"\t", " ", "-", ".", "/", ":", "A", "B", "S", "W",
    "a", "b", "c", "e", "f", "i", "m", "n", "o", "p", "r", "s", "t", "w",
    "x", "y", "z">>

\* ord(c)
Ord(c) == CHOOSE i \in 1..Len(CharOrder) : CharOrder[i] = c

\* a < b for Python strings
RECURSIVE StrLess(_, _)
StrLess(a, b) ==
  IF b = <<>> THEN FALSE
  ELSE IF a = <<>> THEN TRUE
  ELSE IF Head(a) = Head(b) THEN StrLess(Tail(a), Tail(b))
  ELSE Ord(Head(a)) < Ord(Head(b))

\* sorted(s) for a list of strings
sorted(s) == SortSeq(s, StrLess)

\* the elements of a set of strings as a list (list(include_set)); the
\* order Python gives is unspecified and the only use sorts the result
RECURSIVE SetToSeq(_)
SetToSeq(S) ==
  IF S = {} THEN <<>>
  ELSE LET x == CHOOSE y \in S : \A z \in S : z = y \/ StrLess(y, z)
       IN  <<x>> \o SetToSeq(S \ {x})

(***************************************************************************)
(* Inputs of the classification: feeds, whitelists, pattern files          *)
(***************************************************************************)

absa_co_za == <<"a","b","s","a",".","c","o",".","z","a">>
Absa_co_za == <<"A","b","s","a",".","c","o",".","z","a">>
pay_absa   == <<"p","a","y",".","a","b","s","a">>
myabsa_net == <<"m","y","a","b","s","a",".","n","e","t">>
pay_co_za  == <<"p","a","y",".","c","o",".","z","a">>
x_africa   == <<"x",".","a","f","r","i","c","a">>
pay_net    == <<"p","a","y",".","n","e","t">>
foo_net    == <<"f","o","o",".","n","e","t">>
absa_net   == <<"a","b","s","a",".","n","e","t">>
inc_net    == <<"i","n","c",".","n","e","t">>

\* upstream feed contents, as the lines of the day artifact
Feeds ==
  << <<absa_co_za, pay_absa, myabsa_net, foo_net, <<>> >>,
     <<Absa_co_za, pay_co_za, x_africa, Absa_co_za>>,
     <<pay_net, absa_net, absa_co_za \o <<" ">> >> >>

\* a feed that lists one domain in three raw forms
KeyFeed == <<absa_co_za, Absa_co_za, <<"w","w","w",".">> \o absa_co_za>>

\* a response body that is not a feed: the text of an error page
NotArchive == << <<"n","o","t"," ","f","o","u","n","d">> >>

\* Patterns/*.txt: the literal lines of the four pattern files, combined
all_patterns == << <<"p","a","y">> >>

\* possible contents of Whitelist/IgnoreDomains.txt
IgnoreFiles == { <<>>, << <<"w","w","w",".">> \o absa_net >> }

\* possible contents of Whitelist/IncludedHits.txt
IncludeFiles == { <<>>, <<inc_net, absa_net>> }

Sources == {"WhoisDS", "SANS"}

\* calendar days are numbered; a date string YYYY-MM-DD orders as its number
FirstToday == WindowDays + 1
LastToday == FirstToday + MaxTicks
Days == 1..(LastToday - 1)

\* the day artifacts Domain_Downloads/<date> and Domain_Downloads/sans_<date>.json
Keys == Sources \X Days

(***************************************************************************)
(* download_nrd_lists (src/main.py)                                        *)
(***************************************************************************)

\* date of loop iteration i: (yesterday - timedelta(days=i))
WindowDate(now, i) == (now - 1) - i

\* the artifacts the two loops of one run look at
WindowKeys(now) == Sources \X {WindowDate(now, i) : i \in 0..(WindowDays - 1)}

\* the upstream file one iteration asks for: WhoisDS always the dated
\* archive, SANS the undated alias in iteration 0 and the dated file after
RequestUrl(src, now, day) ==
  IF src = "SANS" /\ day = WindowDate(now, 0) THEN <<"alias", 0>>
  ELSE <<"dated", day>>

\* the feed the upstream source publishes under a url: the dated file of a
\* day, or for the SANS alias the file of the current day
Upstream(src, now, url) ==
  LET day == IF url[1] = "alias" THEN now ELSE url[2]
      n == day + upstream_shift + (IF src = "SANS" THEN 1 ELSE 0)
  IN  Feeds[(n % Len(Feeds)) + 1]

\* "if file_path.exists(): continue": an iteration fetches only a missing artifact
NeedsFetch_always(artifact) == TRUE
NeedsFetch(artifact) == ~artifact.exists

\* a path that does not exist
Absent == [exists |-> FALSE, lines |-> <<>>]

\* file_path.write_text(content): the artifact written for a fetched payload
StoredArtifact(payload) == [exists |-> TRUE, lines |-> payload]

\* what a request can come back with: an exception or an HTTP error, the
\* feed in the shape the source publishes it (a ZIP archive, a gzip-compressed
\* JSON array), or a body of another shape
Shapes == {"error", "feed", "other"}

\* the artifact after a response that is not of the source's shape: the
\* WhoisDS loop takes a body without the PK magic bytes for plain text and
\* writes it, the SANS loop raises in gzip.decompress or json.loads
AfterOther(src, artifact) ==
  IF src = "WhoisDS" THEN StoredArtifact(NotArchive) ELSE artifact

\* the artifact of one iteration that sent a request
AfterFetch(src, artifact, shape, feed) ==
  IF shape = "feed" THEN StoredArtifact(feed)
  ELSE IF shape = "other" THEN AfterOther(src, artifact)
  ELSE artifact

(***************************************************************************)
(* parse_and_filter_domains (src/main.py)                                  *)
(***************************************************************************)

\* load_whitelist_set: non-comment lines, normalized
load_whitelist_set(file) ==
  {normalize_domain(Strip(file[i])) :
     i \in {j \in 1..Len(file) : Strip(file[j]) # <<>> /\ Head(Strip(file[j])) # "#"}}

\* [line.strip() for line in f if line.strip()]
ReadLines(file) ==
  LET stripped == [i \in 1..Len(file) |-> Strip(file[i])]
  IN  SelectSeq(stripped, LAMBDA l : l # <<>>)

\* pattern_coza.search(domain)
has_coza(domain) == EndsWith(Lower(domain), <<".","c","o",".","z","a">>)
\* pattern_africa.search(domain)
has_africa(domain) == EndsWith(Lower(domain), <<".","a","f","r","i","c","a">>)
\* pattern_absa.search(domain)
has_absa(domain) == Contains(Lower(domain), <<"a","b","s","a">>)
\* any(p.search(domain) for p in all_patterns), patterns escaped, IGNORECASE
has_pattern(domain) ==
  \E i \in 1..Len(all_patterns) : Contains(Lower(domain), Lower(all_patterns[i]))

\* the if/elif chain of the categorisation loop
ChainCategory(domain) ==
  IF (has_coza(domain) \/ has_africa(domain)) /\ has_absa(domain) THEN "golden"
  ELSE IF has_coza(domain) THEN "coza"
  ELSE IF has_absa(domain) THEN "absa"
  ELSE IF has_africa(domain) THEN "africa"
  ELSE "none"

\* "if any(p.search(domain) ...): pattern_matches.append(domain)", a plain if
\* after the chain
InPatternMatches(domain) == has_pattern(domain)

\* every raw domain a daily file can hold
FeedDomains ==
  UNION {Range(ReadLines(Feeds[i])) : i \in 1..Len(Feeds)}
    \cup Range(ReadLines(NotArchive)) \cup Range(ReadLines(KeyFeed))

\* the per-domain results of one pass of the loop, tabulated over the raw
\* domains of the feeds
NormalizedOf == [d \in FeedDomains |-> normalize_domain(d)]
CategoryOf == [d \in FeedDomains |-> ChainCategory(d)]
PatternOf == [d \in FeedDomains |-> InPatternMatches(d)]
LowerOf == [d \in FeedDomains |-> Lower(d)]

\* "if normalize_domain(domain) in ignore_set: continue"
NotIgnored(domains, ignore_set) ==
  SelectSeq(domains, LAMBDA d : NormalizedOf[d] \notin ignore_set)

\* the domains the chain appends to the list of category c
InCategory(kept, c) == SelectSeq(kept, LAMBDA d : CategoryOf[d] = c)

\* the five lists of one daily file, from its non-ignored domains
CategoryLists(kept) ==
  [exists |-> TRUE,
   golden_matches |-> InCategory(kept, "golden"),
   coza_only |-> InCategory(kept, "coza"),
   absa_only |-> InCategory(kept, "absa"),
   pattern_matches |-> SelectSeq(kept, LAMBDA d : PatternOf[d]),
   africa_only |-> InCategory(kept, "africa")]

\* all_matches = list(dict.fromkeys(golden + coza + absa + pattern + africa))
all_matches(c) ==
  Dedupe(c.golden_matches \o c.coza_only \o c.absa_only
           \o c.pattern_matches \o c.africa_only)

\* the categorisation loop over one daily file
Categorize(domains, ignore_set) == CategoryLists(NotIgnored(domains, ignore_set))

\* no per-day output written for a daily file
NoOutput ==
  [exists |-> FALSE, golden_matches |-> <<>>, coza_only |-> <<>>,
   absa_only |-> <<>>, pattern_matches |-> <<>>, africa_only |-> <<>>]

\* "if domain_lower not in first_seen_map: first_seen_map[domain_lower] = date_str"
RecordFirstSeen_overwrite(map, domain, date_str) ==
  [k \in DOMAIN map \cup {LowerOf[domain]} |->
     IF k = LowerOf[domain] THEN date_str ELSE map[k]]
RecordFirstSeen(map, domain, date_str) ==
  IF LowerOf[domain] \in DOMAIN map THEN map
  ELSE [k \in DOMAIN map \cup {LowerOf[domain]} |->
          IF k = LowerOf[domain] THEN date_str ELSE map[k]]

\* the loop "for domain in all_matches" over the ledger
RECURSIVE UpdateFirstSeen(_, _, _)
UpdateFirstSeen(map, matches, date_str) ==
  IF matches = <<>> THEN map
  ELSE UpdateFirstSeen(RecordFirstSeen(map, Head(matches), date_str),
                       Tail(matches), date_str)

\* load_first_seen_map: rows with a domain and a date, keyed by lower case
load_first_seen_map(file) ==
  LET rows == {d \in DOMAIN file : Strip(d) # <<>>}
  IN  [k \in {Lower(Strip(d)) : d \in rows} |->
         file[CHOOSE d \in rows : Lower(Strip(d)) = k]]

\* save_first_seen_map: one row per key
save_first_seen_map(map) == map

\* strict_filter_domains: ^absa.* or .*absa$ on the raw domain, IGNORECASE
StrictMatch_contains(domain) == Contains(Lower(domain), <<"a","b","s","a">>)
StrictMatch(domain) ==
  \/ StartsWith(Lower(domain), <<"a","b","s","a">>)
  \/ EndsWith(Lower(domain), <<"a","b","s","a">>)

StrictOf == [d \in FeedDomains |-> StrictMatch(d)]

strict_filter_domains(domains, ignore_set) ==
  SelectSeq(domains, LAMBDA d : NormalizedOf[d] \notin ignore_set /\ StrictOf[d])

\* sorted(DAILY_DIR.iterdir()): file names YYYY-MM-DD sort before sans_*.json
FileRank(k) == IF k[1] = "WhoisDS" THEN k[2] ELSE LastToday + 1 + k[2]

RECURSIVE InFileOrder(_)
InFileOrder(ks) ==
  IF ks = {} THEN <<>>
  ELSE LET k == CHOOSE x \in ks : \A y \in ks : FileRank(x) <= FileRank(y)
       IN  <<k>> \o InFileOrder(ks \ {k})

\* one pass of the loop body for a daily file that has no per-day output yet:
\* c is its categorisation, acc = [map, bydate, all_filtered]
ProcessFile(k, c, acc) ==
  [map |-> UpdateFirstSeen(acc.map, all_matches(c), k[2]),
   bydate |-> [acc.bydate EXCEPT ![k] = c],
   all_filtered |-> acc.all_filtered \o all_matches(c)]

\* the loop over the daily files; "if bydate_output.exists(): continue"
RECURSIVE ProcessFiles_noskip(_, _, _, _)
ProcessFiles_noskip(files, daily, ignore_set, acc) ==
  IF files = <<>> THEN acc
  ELSE ProcessFiles_noskip(Tail(files), daily, ignore_set,
         ProcessFile(Head(files),
                     Categorize(ReadLines(daily[Head(files)].lines), ignore_set),
                     acc))
RECURSIVE ProcessFiles(_, _, _, _)
ProcessFiles(files, daily, ignore_set, acc) ==
  IF files = <<>> THEN acc
  ELSE IF acc.bydate[Head(files)].exists
  THEN ProcessFiles(Tail(files), daily, ignore_set, acc)
  ELSE ProcessFiles(Tail(files), daily, ignore_set,
         ProcessFile(Head(files),
                     Categorize(ReadLines(daily[Head(files)].lines), ignore_set),
                     acc))

\* merged_domains = list(dict.fromkeys(all_filtered_domains + list(include_set)))
MergeWithInclude(filtered, include_set) == Dedupe(filtered \o SetToSeq(include_set))

\* open(FILTERED_DOMAINS_FILE, 'a'): one line per domain of sorted(merged)
AppendBatch_truncate(file, merged) == sorted(merged)
AppendBatch(file, merged) == file \o sorted(merged)

(***************************************************************************)
(* Activity scanner and registry (main.py scan_single_domain, scan_domains;*)
(* db_manager.py upsert_domain, add_history_entry)                         *)
(***************************************************************************)

\* tasks of one scan batch; the code's max_concurrent is 10, the model runs
\* the same batch loop with smaller batches
scan_max_concurrent == 2

\* number of runs of scan_domains in ScanSpec
MaxScans == 2

\* the candidate domains of the scanner
ScanDomains == {absa_net, pay_absa, absa_co_za}

\* contents of the cumulative candidate file: the sorted batches that runs
\* of parse_and_filter_domains appended one after the other
CandidateFiles ==
  { sorted(<<pay_absa, absa_net>>),
    sorted(<<absa_net>>) \o sorted(<<pay_absa, absa_net>>),
    sorted(<<pay_absa, absa_net, absa_co_za>>) }

\* what requests.get(url, timeout=5) gives: an exception, a status other
\* than 200, a 200 with blank text, or a 200 whose text has md5 h1 or h2
Responses == {"timeout", "status500", "blank", "h1", "h2"}

\* r.status_code == 200 and r.text.strip()
ResponseOk(r) == r \in {"h1", "h2"}

\* the loop over https://domain and http://domain: the first good response
\* sets is_active and content_hash and ends the loop
ProbeResult(https, http) ==
  IF ResponseOk(https) THEN [is_active |-> TRUE, content_hash |-> https]
  ELSE IF ResponseOk(http) THEN [is_active |-> TRUE, content_hash |-> http]
  ELSE [is_active |-> FALSE, content_hash |-> None]

\* Python truth value of an optional string
Truthy(s) == s # None /\ s # ""

\* x or ""
OrEmpty_none(s) == s
OrEmpty(s) == IF s = None THEN "" ELSE s

\* domain_data.get(domain, {}).get(field, default) on the registry snapshot
PrevGet(domain_data, domain, field, default) ==
  IF domain \in DOMAIN domain_data THEN domain_data[domain][field] ELSE default

\* changed = bool(content_hash and prev_hash and prev_hash != content_hash),
\* prev_hash read from the snapshot domain_data
ContentChanged(content_hash, prev_hash) ==
  Truthy(content_hash) /\ Truthy(prev_hash) /\ prev_hash # content_hash

\* timestamps: a date of the ledger turned into midnight UTC of that date,
\* or the clock reading of datetime.now(timezone.utc)
IsoOfDate(date_str) == <<"date", date_str>>
IsoNow(clock) == <<"now", clock>>

\* a resolution that does not consult the snapshot
ResolveFirstSeen_now(first_seen_map, domain_data, domain, clock) ==
  IF Lower(domain) \in DOMAIN first_seen_map
  THEN IsoOfDate(first_seen_map[Lower(domain)])
  ELSE IsoNow(clock)

\* first_seen of scan_single_domain: the ledger value, else the snapshot's
\* value, else the current time; a bare date becomes a timestamp
ResolveFirstSeen(first_seen_map, domain_data, domain, clock) ==
  IF Lower(domain) \in DOMAIN first_seen_map
  THEN IsoOfDate(first_seen_map[Lower(domain)])
  ELSE PrevGet(domain_data, domain, "first_seen", IsoNow(clock))

\* the arguments scan_single_domain passes to upsert_domain
UpsertArgs(domain, probe, changed, domain_data, first_seen, checked_at) ==
  [domain |-> domain,
   first_seen |-> first_seen,
   last_checked |-> checked_at,
   is_active |-> probe.is_active,
   content_hash |-> OrEmpty(probe.content_hash),
   content_changed |-> changed,
   has_profile |-> PrevGet(domain_data, domain, "has_profile", FALSE),
   tags |-> PrevGet(domain_data, domain, "tags", <<>>),
   notes |-> None,
   category |-> PrevGet(domain_data, domain, "category", "unknown"),
   risk_level |-> "unknown"]

\* the row of the uuid a successful INSERT gives the domain: one row per
\* domain is ever inserted, so the domain stands for its uuid
NewId(domain) == <<"id", domain>>

\* INSERT INTO domains (...)
InsertedRow(a) ==
  [id |-> NewId(a.domain), first_seen |-> a.first_seen,
   last_checked |-> a.last_checked, is_active |-> a.is_active,
   content_hash |-> OrEmpty(a.content_hash), content_changed |-> a.content_changed,
   has_profile |-> a.has_profile, tags |-> a.tags, notes |-> a.notes,
   category |-> a.category, risk_level |-> a.risk_level]

\* an UPDATE that keeps the stored fingerprint when the scan found none
UpdatedRow_keep_hash(row, a) ==
  [id |-> row.id, first_seen |-> row.first_seen,
   last_checked |-> a.last_checked, is_active |-> a.is_active,
   content_hash |-> IF OrEmpty(a.content_hash) = "" THEN row.content_hash
                    ELSE a.content_hash,
   content_changed |-> a.content_changed,
   has_profile |-> a.has_profile, tags |-> a.tags, notes |-> a.notes,
   category |-> a.category, risk_level |-> a.risk_level]

\* UPDATE domains SET ... WHERE domain = ?: id and first_seen are kept
UpdatedRow_first_seen(row, a) ==
  [id |-> row.id, first_seen |-> a.first_seen,
   last_checked |-> a.last_checked, is_active |-> a.is_active,
   content_hash |-> OrEmpty(a.content_hash), content_changed |-> a.content_changed,
   has_profile |-> a.has_profile, tags |-> a.tags, notes |-> a.notes,
   category |-> a.category, risk_level |-> a.risk_level]
UpdatedRow(row, a) ==
  [id |-> row.id, first_seen |-> row.first_seen,
   last_checked |-> a.last_checked, is_active |-> a.is_active,
   content_hash |-> OrEmpty(a.content_hash), content_changed |-> a.content_changed,
   has_profile |-> a.has_profile, tags |-> a.tags, notes |-> a.notes,
   category |-> a.category, risk_level |-> a.risk_level]

\* domain TEXT UNIQUE NOT NULL: an INSERT of a domain that has a row fails
UniqueViolation_off(table, domain) == FALSE
UniqueViolation(table, domain) == domain \in DOMAIN table

\* the number of rows of the domains table with the given domain
RowsOf(counts, domain) ==
  IF domain \in DOMAIN counts THEN counts[domain] ELSE 0

\* the table with the row of one domain written
WithRow(table, domain, row) ==
  [d \in DOMAIN table \cup {domain} |-> IF d = domain THEN row ELSE table[d]]

\* INSERT INTO domain_history (...)
HistoryEntry(domain_id, checked_at, probe, changed) ==
  [domain_id |-> domain_id, checked_at |-> checked_at,
   is_active |-> probe.is_active, content_hash |-> probe.content_hash,
   content_changed |-> changed, screenshot_taken |-> FALSE]

\* domains = the stripped non-blank lines whose normalized form is not ignored
ScanCandidates(file, ignore_set) ==
  SelectSeq(ReadLines(file), LAMBDA d : normalize_domain(d) \notin ignore_set)

\* prioritized = active_domains + unknown_domains + inactive_domains
active_domains(domains, domain_data) ==
  SelectSeq(domains, LAMBDA d : d \in DOMAIN domain_data /\ domain_data[d].is_active)

unknown_domains(domains, domain_data) ==
  SelectSeq(domains, LAMBDA d : d \notin DOMAIN domain_data)

inactive_domains(domains, domain_data) ==
  SelectSeq(domains, LAMBDA d : d \in DOMAIN domain_data /\ ~domain_data[d].is_active)

Prioritize(domains, domain_data) ==
  active_domains(domains, domain_data) \o unknown_domains(domains, domain_data)
    \o inactive_domains(domains, domain_data)

\* batch = prioritized[i:i + max_concurrent]
Slice_rest(list, i, n) == SubSeq(list, i + 1, Len(list))
Slice(list, i, n) ==
  SubSeq(list, i + 1, IF i + n < Len(list) THEN i + n ELSE Len(list))

\* a coroutine scan_single_domain(domain, ...) that has not run yet
NewScanTask(domain) ==
  [domain |-> domain, pc |-> "probe", is_active |-> FALSE,
   content_hash |-> None, changed |-> FALSE, existing |-> FALSE]

ScanBatch(prioritized, i) ==
  [t \in 1..Len(Slice(prioritized, i, scan_max_concurrent)) |->
     NewScanTask(Slice(prioritized, i, scan_max_concurrent)[t])]

(***************************************************************************)
(* Screenshot capturer (main.py capture_screenshots, screenshot_hybrid.py) *)
(***************************************************************************)

\* tasks of one capture batch; the code passes max_concurrent=3
capture_max_concurrent == 2

\* readings of the clock in CaptureSpec: every run of scan_domains and of
\* capture_screenshots takes one
MaxClock == 4

\* is_valid_screenshot: the smallest size of a real screenshot (10KB)
MinScreenshotBytes == 10240

\* sizes of the image a renderer writes
ImageSizes == {MinScreenshotBytes - 1, MinScreenshotBytes}

\* a render either raises (or times out) before writing, or writes an image
RenderOutcomes ==
  {[raised |-> TRUE, size |-> 0]} \cup
  {[raised |-> FALSE, size |-> s] : s \in ImageSizes}

\* is_valid_screenshot(file_path); size 0 stands for a missing file
is_valid_screenshot(size) == size # 0 /\ ~(size < MinScreenshotBytes)

\* str.replace('.', '_')
ReplaceDots(s) == [i \in 1..Len(s) |-> IF s[i] = "." THEN "_" ELSE s[i]]

\* filename = f"{domain.replace('.', '_')}.png"
Filename(domain) == ReplaceDots(domain) \o <<".", "p", "n", "g">>

\* every file name a capture can write
Filenames == {Filename(d) : d \in ScanDomains}

\* the orders db.get_all_domains() can return the rows in:
\* ORDER BY last_checked DESC, rows with equal last_checked in any order
AllDomainsOrders(registry) ==
  {s \in [1..Cardinality(DOMAIN registry) -> DOMAIN registry] :
     /\ \A i, j \in DOMAIN s : i # j => s[i] # s[j]
     /\ \A i, j \in DOMAIN s :
          i < j => ~(registry[s[i]].last_checked < registry[s[j]].last_checked)}

\* index['domains'].get(domain, {}).get('last_content_hash', '')
LastHash(index, domain) ==
  IF domain \in DOMAIN index THEN index[domain].last_content_hash ELSE ""

\* if content_hash and last_hash == content_hash: skip
ShouldSkip_has_entry(content_hash, last_hash) == Truthy(last_hash)
ShouldSkip(content_hash, last_hash) ==
  Truthy(content_hash) /\ last_hash = content_hash

\* the entry appended to domains_to_capture
CaptureTarget(registry, domain) ==
  [domain |-> domain, url |-> <<"https://">> \o domain,
   content_hash |-> registry[domain].content_hash]

\* the loop over active_domains that fills domains_to_capture
SelectTargets(all_domains, registry, index) ==
  LET kept == SelectSeq(all_domains,
                LAMBDA d : /\ registry[d].is_active
                           /\ ~ShouldSkip(registry[d].content_hash,
                                          LastHash(index, d)))
  IN  [i \in 1..Len(kept) |-> CaptureTarget(registry, kept[i])]

\* a coroutine capture_single(url, domain, content_hash) that has not run yet;
\* tier1 and tier2 record what became of each tier
NewCaptureTask(target) ==
  [domain |-> target.domain, url |-> target.url,
   filename |-> Filename(target.domain),
   content_hash |-> target.content_hash,
   success |-> FALSE, method |-> None,
   pc |-> "tier1", tier1 |-> "untried", tier2 |-> "untried"]

CaptureBatch(targets, i) ==
  [t \in 1..Len(Slice(targets, i, capture_max_concurrent)) |->
     NewCaptureTask(Slice(targets, i, capture_max_concurrent)[t])]

\* what became of a tier that ran with the given outcome
TierVerdict(outcome) ==
  IF outcome.raised THEN "exception"
  ELSE IF is_valid_screenshot(outcome.size) THEN "ok"
  ELSE "undersized"

\* capture_with_html2image: the file left under the name after the attempt
\* (an invalid screenshot is deleted, an exception leaves the old file)
FileAfterTier1(old_size, outcome) ==
  IF outcome.raised THEN old_size
  ELSE IF is_valid_screenshot(outcome.size) THEN outcome.size
  ELSE 0

\* capture_with_playwright: page.screenshot writes the file, and an invalid
\* one is left in place
FileAfterTier2(old_size, outcome) ==
  IF outcome.raised THEN old_size ELSE outcome.size

\* capture_single after the fast tier: return on success, else fall back
AfterTier1_fallthrough(ok) == "tier2"
AfterTier1(ok) == IF ok THEN "done" ELSE "tier2"

\* the method names capture_single puts in result['method']
Tier1Method == "html2image"
Tier2Method == "playwright"

\* the result dict capture_single returns
ResultOf(task) ==
  [domain |-> task.domain, url |-> task.url, filename |-> task.filename,
   content_hash |-> task.content_hash, success |-> task.success,
   method |-> task.method]

\* results.append({'success': False, 'error': str(result)}): the entry of a
\* coroutine that raised
ErrorResult == [success |-> FALSE, error |-> "exception"]

\* index['domains'][domain] = {...} for a successful result
IndexEntry(result, ts) ==
  [last_content_hash |-> result.content_hash,
   last_screenshot |-> ts,
   last_screenshot_path |-> <<"Output/Screenshots/">> \o result.filename,
   capture_method |-> result.method]

\* the loop over results that updates the index
RECURSIVE UpdateIndex_all(_, _, _)
UpdateIndex_all(index, results, ts) ==
  IF results = <<>> THEN index
  ELSE UpdateIndex_all(
         WithRow(index, Head(results).domain, IndexEntry(Head(results), ts)),
         Tail(results), ts)
RECURSIVE UpdateIndex(_, _, _)
UpdateIndex(index, results, ts) ==
  IF results = <<>> THEN index
  ELSE UpdateIndex(
         IF Head(results).success
         THEN WithRow(index, Head(results).domain, IndexEntry(Head(results), ts))
         ELSE index,
         Tail(results), ts)

(***************************************************************************)
(* State                                                                   *)
(***************************************************************************)

VARIABLES
  \* NormSpec: one raw string and the results of normalizing it once, twice
  nd_arg, nd_once, nd_twice, nd_pc,
  \* the calendar day of datetime.now()
  today,
  \* Domain_Downloads: day artifact -> its lines, or None when absent
  DAILY_DIR,
  \* the requests of the last download run: artifact, url, shape of the
  \* response
  requests,
  \* Output/Domain_ByDate: day artifact -> its per-day output, or None
  BYDATE_DIR,
  \* Output/Domain_First_Seen.csv: domain -> first_seen
  FIRST_SEEN_FILE,
  \* Output/Full_Cleaned_Report/total_filtered_domains.txt: its lines
  FILTERED_DOMAINS_FILE,
  \* merged_domains of the last run of parse_and_filter_domains
  merged_domains,
  \* Whitelist/IgnoreDomains.txt and Whitelist/IncludedHits.txt: their lines
  IGNORE_FILE, INCLUDE_FILE,
  \* number of runs of parse_and_filter_domains so far
  parse_runs

VARIABLES
  \* the domains table: domain -> row
  registry,
  \* the domains table: domain -> number of rows with that domain
  row_count,
  \* the domain_history table: a bag of rows
  history,
  \* what the workflow is doing: "idle", "scanning" or "capturing"
  workflow_pc,
  \* the reading of datetime.now() taken by the run in progress
  clock,
  \* the hosts whose probes always time out
  unreachable,
  \* scan_domains: the registry snapshot, the prioritized list, the loop
  \* index i, the coroutines of the batch in flight, the runs completed
  domain_data, prioritized, scan_i, scan_tasks, scan_runs,
  \* whether the imports of html2image, playwright and screenshot_hybrid
  \* succeeded
  HTML2IMAGE_AVAILABLE, PLAYWRIGHT_AVAILABLE, SCREENSHOT_AVAILABLE,
  \* Output/Screenshots/index.json: domain -> entry
  index,
  \* Output/Screenshots: file name -> size in bytes, 0 when absent
  SCREENSHOT_DIR,
  \* capture_screenshots and capture_batch_parallel: the targets, the loop
  \* index i, the coroutines of the batch in flight, the results so far,
  \* the runs completed
  domains_to_capture, capture_i, capture_tasks, results, capture_runs

VARIABLES
  \* main.py is in ROOT_DIR
  main_py_exists,
  \* the global workflow_status of the API server
  workflow_status,
  \* POST /workflow/run: per request, how far the request and the workflow
  \* it started got
  trigger_pc,
  \* the HTTP status each request was answered with, 0 while unanswered
  response,
  \* the output lines each workflow subprocess has written so far, and its
  \* exit code
  lines_written, returncode

server_vars == <<main_py_exists, workflow_status, trigger_pc, response,
                 lines_written, returncode>>

scan_vars == <<domain_data, prioritized, scan_i, scan_tasks, scan_runs>>

capture_vars == <<index, SCREENSHOT_DIR, domains_to_capture, capture_i,
                  capture_tasks, results, capture_runs>>

available_vars == <<HTML2IMAGE_AVAILABLE, PLAYWRIGHT_AVAILABLE, SCREENSHOT_AVAILABLE>>

monitor_vars == <<registry, row_count, history, workflow_pc, clock, unreachable,
                  scan_vars, available_vars, capture_vars>>

norm_vars == <<nd_arg, nd_once, nd_twice, nd_pc>>

feed_vars == <<upstream_shift, today, DAILY_DIR, requests, BYDATE_DIR, FIRST_SEEN_FILE,
               FILTERED_DOMAINS_FILE, merged_domains, IGNORE_FILE,
               INCLUDE_FILE, parse_runs>>

vars == <<norm_vars, feed_vars, monitor_vars, server_vars>>

\* the normalizer is not being exercised
NormIdle ==
  nd_arg = <<>> /\ nd_once = <<>> /\ nd_twice = <<>> /\ nd_pc = "idle"

\* a fresh installation: no artifact, no output, empty ledger and candidate file
FeedFresh ==
  /\ today = FirstToday
  /\ DAILY_DIR = [k \in Keys |-> Absent]
  /\ requests = {}
  /\ BYDATE_DIR = [k \in Keys |-> NoOutput]
  /\ FIRST_SEEN_FILE = <<>>
  /\ FILTERED_DOMAINS_FILE = <<>>
  /\ merged_domains = <<>>
  /\ parse_runs = 0

\* the feed stages are not being exercised
FeedIdle ==
  FeedFresh /\ IGNORE_FILE = <<>> /\ INCLUDE_FILE = <<>> /\ upstream_shift = 0

\* an empty registry and screenshot directory, no scan or capture under way
MonitorFresh ==
  /\ registry = <<>>
  /\ row_count = <<>>
  /\ history = EmptyBag
  /\ workflow_pc = "idle"
  /\ clock = 0
  /\ domain_data = <<>>
  /\ prioritized = <<>>
  /\ scan_i = 0
  /\ scan_tasks = <<>>
  /\ scan_runs = 0
  /\ index = <<>>
  /\ SCREENSHOT_DIR = [f \in Filenames |-> 0]
  /\ domains_to_capture = <<>>
  /\ capture_i = 0
  /\ capture_tasks = <<>>
  /\ results = <<>>
  /\ capture_runs = 0

(***************************************************************************)
(* The workflow endpoints of the API server (backend/server.py)            *)
(***************************************************************************)

\* the POST /workflow/run requests that are made
MaxTriggers == 2
Triggers == 1..MaxTriggers

\* the output lines a workflow subprocess writes at most
MaxLines == 1

\* the number of log lines workflow_status keeps
LogLimit == 1000

\* workflow_status as the module defines it; times are None or "now"
NoWorkflowYet ==
  [running |-> FALSE, current_step |-> "None",
   message |-> "No workflow has been run yet",
   start_time |-> "None", end_time |-> "None", progress |-> 0, logs |-> <<>>]

\* the assignments of run_main_workflow
Initializing(ws) ==
  [ws EXCEPT !.running = TRUE, !.current_step = "starting",
             !.message = "Initializing workflow...",
             !.start_time = "now", !.logs = <<>>]

\* the finally clause of run_workflow_sync
Finally(ws) == [ws EXCEPT !.running = FALSE, !.end_time = "now"]

\* run_workflow_sync when main.py is missing: the early return, then finally
NotFound(ws) ==
  Finally([ws EXCEPT !.message = "main.py not found", !.running = FALSE])

\* run_workflow_sync when Popen raises: the except clause, then finally
Errored(ws) ==
  Finally([ws EXCEPT !.message = "Error", !.current_step = "error", !.progress = 0])

\* a line of output of subprocess r appended to the logs, of which the
\* last LogLimit are kept
AppendLog(ws, r) ==
  [ws EXCEPT !.logs = IF Len(@) + 1 > LogLimit
                      THEN SubSeq(Append(@, r), Len(@) + 2 - LogLimit, Len(@) + 1)
                      ELSE Append(@, r)]

\* run_workflow_sync after process.wait(): the verdict by exit code, then
\* finally
Completed(ws, code) ==
  Finally(IF code = 0
          THEN [ws EXCEPT !.message = "Workflow completed successfully!",
                          !.current_step = "completed", !.progress = 100]
          ELSE [ws EXCEPT !.message = "Workflow failed",
                          !.current_step = "failed"])

\* the API server as the module is imported: no request was made
ServerFresh ==
  /\ workflow_status = NoWorkflowYet
  /\ trigger_pc = [r \in Triggers |-> "new"]
  /\ response = [r \in Triggers |-> 0]
  /\ lines_written = [r \in Triggers |-> 0]
  /\ returncode = [r \in Triggers |-> 0]

\* the API server is not being exercised
ServerIdle ==
  ServerFresh /\ main_py_exists = TRUE

\* the scanner and the capturer are not being exercised
MonitorIdle ==
  /\ MonitorFresh
  /\ unreachable = {}
  /\ HTML2IMAGE_AVAILABLE = TRUE
  /\ PLAYWRIGHT_AVAILABLE = TRUE
  /\ SCREENSHOT_AVAILABLE = TRUE

(***************************************************************************)
(* NormSpec: normalize_domain applied to bounded raw strings               *)
(***************************************************************************)

\* all strings over Alphabet of length at most n
StringsUpTo(n) == UNION {[1..k -> Alphabet] : k \in 0..n}

\* longer raw strings of the shapes the normalizer is written for
NamedInputs ==
  { <<"w","w","w",".","w","w","w",".","a">>,
    <<"a",":","/","/","a",":","/","/","a">>,
    <<"w","w","w",".","a",".","/","a">>,
    <<"a",":","/","/","w","w","w",".","a",".",".">> }

NormInit ==
  /\ nd_arg \in StringsUpTo(MaxLen) \cup NamedInputs
  /\ nd_once = <<>>
  /\ nd_twice = <<>>
  /\ nd_pc = "input"
  /\ FeedIdle
  /\ MonitorIdle
  /\ ServerIdle

\* first call normalize_domain(x)
NormalizeOnce ==
  /\ nd_pc = "input"
  /\ nd_once' = normalize_domain(nd_arg)
  /\ nd_pc' = "once"
  /\ UNCHANGED <<nd_arg, nd_twice, feed_vars, monitor_vars, server_vars>>

\* second call normalize_domain(normalize_domain(x))
NormalizeTwice ==
  /\ nd_pc = "once"
  /\ nd_twice' = normalize_domain(nd_once)
  /\ nd_pc' = "twice"
  /\ UNCHANGED <<nd_arg, nd_once, feed_vars, monitor_vars, server_vars>>

NormNext == NormalizeOnce \/ NormalizeTwice

NormSpec == NormInit /\ [][NormNext]_vars

\* C8: normalize_domain is idempotent: normalizing the result of a
\* normalization gives that result again, for every raw input string.
C8_NormalizeIdempotent == nd_pc = "twice" => nd_twice = nd_once

(***************************************************************************)
(* FeedSpec: download_nrd_lists and parse_and_filter_domains, run in any   *)
(* order and any number of times while the calendar advances               *)
(***************************************************************************)

FeedInit ==
  /\ NormIdle
  /\ ServerIdle
  /\ FeedFresh
  /\ IGNORE_FILE \in IgnoreFiles
  /\ INCLUDE_FILE \in IncludeFiles
  /\ upstream_shift \in 0..(Len(Feeds) - 1)
  /\ MonitorIdle

\* datetime.now() moves to the next calendar day
Tick ==
  /\ today < LastToday
  /\ today' = today + 1
  /\ UNCHANGED <<norm_vars, server_vars, monitor_vars, upstream_shift, DAILY_DIR, requests, BYDATE_DIR, FIRST_SEEN_FILE,
                 FILTERED_DOMAINS_FILE, merged_domains, IGNORE_FILE,
                 INCLUDE_FILE, parse_runs>>

\* one run of download_nrd_lists: both loops over the window; every
\* response is of one of the given shapes
Download(shapes) ==
  LET fetched == {k \in WindowKeys(today) : NeedsFetch(DAILY_DIR[k])} IN
  \E shape \in [fetched -> shapes] :
        /\ requests' =
             {<<k, RequestUrl(k[1], today, k[2]), shape[k]>> : k \in fetched}
        /\ DAILY_DIR' =
             [k \in Keys |->
                IF k \in fetched
                THEN AfterFetch(k[1], DAILY_DIR[k], shape[k],
                       Upstream(k[1], today, RequestUrl(k[1], today, k[2])))
                ELSE DAILY_DIR[k]]
        /\ UNCHANGED <<norm_vars, server_vars, monitor_vars, upstream_shift, today, BYDATE_DIR, FIRST_SEEN_FILE,
                       FILTERED_DOMAINS_FILE, merged_domains, IGNORE_FILE,
                       INCLUDE_FILE, parse_runs>>

\* a run of download_nrd_lists with sources that answer every request with
\* an error or with the feed
DownloadRun == Download({"error", "feed"})

\* one run of parse_and_filter_domains
ParseRun ==
  /\ parse_runs < MaxRuns
  /\ \E ignore_set \in {load_whitelist_set(IGNORE_FILE)},
        include_set \in {load_whitelist_set(INCLUDE_FILE)} :
       \E acc \in {ProcessFiles(InFileOrder({k \in Keys : DAILY_DIR[k].exists}),
                                 DAILY_DIR, ignore_set,
                                 [map |-> load_first_seen_map(FIRST_SEEN_FILE),
                                  bydate |-> BYDATE_DIR,
                                  all_filtered |-> <<>>])} :
         \E merged \in {MergeWithInclude(
                           strict_filter_domains(acc.all_filtered, ignore_set),
                           include_set)} :
           /\ BYDATE_DIR' = acc.bydate
           /\ merged_domains' = merged
           /\ FILTERED_DOMAINS_FILE' = AppendBatch(FILTERED_DOMAINS_FILE, merged)
           /\ FIRST_SEEN_FILE' = save_first_seen_map(acc.map)
  /\ parse_runs' = parse_runs + 1
  /\ UNCHANGED <<norm_vars, server_vars, monitor_vars, upstream_shift, today, DAILY_DIR, requests,
                 IGNORE_FILE, INCLUDE_FILE>>

FeedNext == Tick \/ DownloadRun \/ ParseRun

FeedSpec == FeedInit /\ [][FeedNext]_vars

(***************************************************************************)
(* Properties of the feed stages                                           *)
(***************************************************************************)

\* the ledger keys of the domains matched in the daily file k
MatchedKeys(k) == {Lower(d) : d \in Range(all_matches(BYDATE_DIR[k]))}

\* C1: for every key already in the first-seen ledger, any further run of
\* parse_and_filter_domains leaves its first_seen value unchanged, and no key
\* is ever removed from the ledger.
C1_LedgerWriteOnce ==
  [][\A key \in DOMAIN FIRST_SEEN_FILE :
       /\ key \in DOMAIN FIRST_SEEN_FILE'
       /\ FIRST_SEEN_FILE'[key] = FIRST_SEEN_FILE[key]]_vars

\* C1 witness: after a second run, a domain of the ledger has also been
\* matched in a processed daily file of another day than its first_seen.
C1_Witness ==
  /\ parse_runs = 2
  /\ \E k \in Keys :
       /\ BYDATE_DIR[k].exists
       /\ \E key \in MatchedKeys(k) :
            key \in DOMAIN FIRST_SEEN_FILE /\ FIRST_SEEN_FILE[key] # k[2]

IsPrefix(a, b) == Len(a) <= Len(b) /\ SubSeq(b, 1, Len(a)) = a

\* C2: every run of parse_and_filter_domains only appends to the cumulative
\* candidate file: the content before the run is a prefix of the content
\* after it, and the lines after the run are the lines before it together
\* with the batch the run merged (so two runs leave the union of both batches).
C2_AppendOnly ==
  [][/\ IsPrefix(FILTERED_DOMAINS_FILE, FILTERED_DOMAINS_FILE')
     /\ parse_runs' # parse_runs =>
          Range(FILTERED_DOMAINS_FILE') =
            Range(FILTERED_DOMAINS_FILE) \cup Range(merged_domains')]_vars

\* C2 witness: two runs appended overlapping batches: a feed-derived domain
\* stands on two lines of the file.
C2_Witness ==
  /\ parse_runs = 2
  /\ \E i, j \in 1..Len(FILTERED_DOMAINS_FILE) :
       /\ i < j
       /\ FILTERED_DOMAINS_FILE[i] = FILTERED_DOMAINS_FILE[j]
       /\ FILTERED_DOMAINS_FILE[i] \in FeedDomains
       /\ FILTERED_DOMAINS_FILE[i] \notin load_whitelist_set(INCLUDE_FILE)

\* C7: for each source and day of the window whose artifact already exists,
\* a run of download_nrd_lists sends no request for it and leaves the
\* artifact unchanged.
C7_NoRefetch ==
  [][DownloadRun =>
       \A k \in Keys :
         DAILY_DIR[k].exists =>
           /\ DAILY_DIR'[k] = DAILY_DIR[k]
           /\ \A r \in requests' : r[1] # k]_vars

\* C7 witness: a run that sent requests skipped an artifact of its window
\* that an earlier run had stored.
C7_Witness ==
  /\ requests # {}
  /\ \E k \in WindowKeys(today) :
       DAILY_DIR[k].exists /\ \A r \in requests : r[1] # k

\* the category the priority rule gives a raw domain
PriorityCategory(d) ==
  IF (has_coza(d) \/ has_africa(d)) /\ has_absa(d) THEN "golden_matches"
  ELSE IF has_absa(d) THEN "absa_only"
  ELSE IF has_coza(d) THEN "coza_only"
  ELSE IF has_africa(d) THEN "africa_only"
  ELSE IF has_pattern(d) THEN "pattern_matches"
  ELSE "dropped"

CategoryNames ==
  {"golden_matches", "absa_only", "coza_only", "africa_only", "pattern_matches"}

\* the category lists of a per-day output that hold the domain
ListsHolding(c, d) == {n \in CategoryNames : d \in Range(c[n])}

\* C9: in a per-day pass every non-ignored raw domain is placed in at most
\* one category, the first that matches in the order golden, absa, coza,
\* africa, pattern; a domain of golden, absa, coza or africa is never also in
\* pattern, and a domain matching nothing (or ignored) is in no list.
C9_OneCategoryByPriority ==
  \A k \in Keys :
    BYDATE_DIR[k].exists =>
      \A d \in Range(ReadLines(DAILY_DIR[k].lines)) :
        ListsHolding(BYDATE_DIR[k], d) =
          IF normalize_domain(d) \in load_whitelist_set(IGNORE_FILE)
               \/ PriorityCategory(d) = "dropped"
          THEN {} ELSE {PriorityCategory(d)}

\* C10: the ledger value of each domain is the earliest date among all
\* processed feed days in which the domain was matched.
C10_LedgerIsEarliest ==
  \A k \in Keys :
    BYDATE_DIR[k].exists =>
      \A key \in MatchedKeys(k) :
        key \in DOMAIN FIRST_SEEN_FILE /\ FIRST_SEEN_FILE[key] <= k[2]

(***************************************************************************)
(* ScanSpec: runs of parse_and_filter_domains and of scan_domains over    *)
(* the candidate file left by the feed stages; CaptureSpec: runs of       *)
(* scan_domains and of capture_screenshots in the order of main()         *)
(***************************************************************************)

\* the state the feed stages left: a ledger, the candidate file, the
\* ignore list; one more run of parse_and_filter_domains is explored
AfterFeed(files, ignore_files) ==
  /\ upstream_shift = 0
  /\ today = FirstToday
  /\ DAILY_DIR = [k \in Keys |-> Absent]
  /\ requests = {}
  /\ BYDATE_DIR = [k \in Keys |-> NoOutput]
  /\ FIRST_SEEN_FILE = [k \in {absa_net} |-> 1]
  /\ FILTERED_DOMAINS_FILE \in files
  /\ merged_domains = <<>>
  /\ IGNORE_FILE \in ignore_files
  /\ INCLUDE_FILE = <<>>
  /\ parse_runs = MaxRuns - 1

\* the day artifact that download_nrd_lists stored since the last run of
\* parse_and_filter_domains: the WhoisDS file of day 2
PendingKey == <<"WhoisDS", 2>>

\* the state after a later download: the files the feed stages left, and
\* one day artifact not parsed yet
AfterDownload(files, ignore_files) ==
  /\ upstream_shift = 0
  /\ today = FirstToday
  /\ DAILY_DIR = [k \in Keys |->
                    IF k = PendingKey THEN StoredArtifact(Feeds[1]) ELSE Absent]
  /\ requests = {}
  /\ BYDATE_DIR = [k \in Keys |-> NoOutput]
  /\ FIRST_SEEN_FILE = [k \in {absa_net} |-> 1]
  /\ FILTERED_DOMAINS_FILE \in files
  /\ merged_domains = <<>>
  /\ IGNORE_FILE \in ignore_files
  /\ INCLUDE_FILE = <<>>
  /\ parse_runs = MaxRuns - 1

ScanInit ==
  /\ NormIdle
  /\ ServerIdle
  /\ \/ AfterFeed(CandidateFiles, IgnoreFiles)
     \/ AfterDownload({sorted(<<pay_absa, absa_net>>)}, IgnoreFiles)
  /\ MonitorFresh
  /\ unreachable \in {{}, {pay_absa}}
  /\ HTML2IMAGE_AVAILABLE = TRUE
  /\ PLAYWRIGHT_AVAILABLE = TRUE
  /\ SCREENSHOT_AVAILABLE = TRUE

\* scan_domains up to the first batch: the candidates, the registry
\* snapshot, the prioritized list, the coroutines of the first batch
ScanStart ==
  /\ workflow_pc = "idle"
  /\ workflow_pc' = "scanning"
  /\ clock' = clock + 1
  /\ domain_data' = registry
  /\ \E plist \in {Prioritize(
                     ScanCandidates(FILTERED_DOMAINS_FILE,
                                    load_whitelist_set(IGNORE_FILE)),
                     registry)} :
       /\ prioritized' = plist
       /\ scan_tasks' = ScanBatch(plist, 0)
  /\ scan_i' = 0
  /\ UNCHANGED <<norm_vars, server_vars, feed_vars, registry, row_count, history, unreachable,
                 scan_runs, available_vars, capture_vars>>

\* the responses a host can give to one request
ResponsesOf(domain) ==
  IF domain \in unreachable THEN {"timeout"} ELSE Responses

\* what the probe loop can find for a domain
ProbeResults(domain) ==
  {ProbeResult(https, http) :
     https \in ResponsesOf(domain), http \in ResponsesOf(domain)}

\* scan_single_domain up to its call of upsert_domain: the two probes and
\* the comparison with the snapshot
Probe(t) ==
  /\ workflow_pc = "scanning"
  /\ t \in DOMAIN scan_tasks
  /\ scan_tasks[t].pc = "probe"
  /\ \E probe \in ProbeResults(scan_tasks[t].domain) :
         scan_tasks' =
           [scan_tasks EXCEPT
              ![t].pc = "select",
              ![t].is_active = probe.is_active,
              ![t].content_hash = probe.content_hash,
              ![t].changed =
                 ContentChanged(probe.content_hash,
                                PrevGet(domain_data, scan_tasks[t].domain,
                                        "content_hash", None))]
  /\ UNCHANGED <<norm_vars, server_vars, feed_vars, registry, row_count, history, workflow_pc, clock,
                 unreachable, domain_data, prioritized, scan_i, scan_runs,
                 available_vars, capture_vars>>

\* upsert_domain: SELECT id, risk_level FROM domains WHERE domain = ?
UpsertSelect(t) ==
  /\ workflow_pc = "scanning"
  /\ t \in DOMAIN scan_tasks
  /\ scan_tasks[t].pc = "select"
  /\ scan_tasks' =
       [scan_tasks EXCEPT
          ![t].pc = "write",
          ![t].existing = (scan_tasks[t].domain \in DOMAIN registry)]
  /\ UNCHANGED <<norm_vars, server_vars, feed_vars, registry, row_count, history, workflow_pc, clock,
                 unreachable, domain_data, prioritized, scan_i, scan_runs,
                 available_vars, capture_vars>>

\* the arguments of the upsert_domain call of a task
TaskArgs(task) ==
  UpsertArgs(task.domain, task, task.changed, domain_data,
             ResolveFirstSeen(load_first_seen_map(FIRST_SEEN_FILE),
                              domain_data, task.domain, clock),
             clock)

\* upsert_domain: the UPDATE or the INSERT, and the commit; an INSERT of a
\* domain that got its row since the SELECT breaks the UNIQUE constraint and
\* the exception ends the coroutine
UpsertWrite(t) ==
  /\ workflow_pc = "scanning"
  /\ t \in DOMAIN scan_tasks
  /\ scan_tasks[t].pc = "write"
  /\ \E domain \in {scan_tasks[t].domain} :
       IF scan_tasks[t].existing
       THEN /\ registry' = WithRow(registry, domain,
                                   UpdatedRow(registry[domain],
                                              TaskArgs(scan_tasks[t])))
            /\ row_count' = row_count
            /\ scan_tasks' = [scan_tasks EXCEPT ![t].pc = "history"]
       ELSE IF UniqueViolation(registry, domain)
       THEN /\ registry' = registry
            /\ row_count' = row_count
            /\ scan_tasks' = [scan_tasks EXCEPT ![t].pc = "raised"]
       ELSE /\ registry' = WithRow(registry, domain,
                                   InsertedRow(TaskArgs(scan_tasks[t])))
            /\ row_count' = WithRow(row_count, domain,
                                    RowsOf(row_count, domain) + 1)
            /\ scan_tasks' = [scan_tasks EXCEPT ![t].pc = "history"]
  /\ UNCHANGED <<norm_vars, server_vars, feed_vars, history, workflow_pc, clock,
                 unreachable, domain_data, prioritized, scan_i, scan_runs,
                 available_vars, capture_vars>>

\* add_history_entry, and the return of scan_single_domain
AddHistory(t) ==
  /\ workflow_pc = "scanning"
  /\ t \in DOMAIN scan_tasks
  /\ scan_tasks[t].pc = "history"
  /\ history' = history (+) SetToBag({
         HistoryEntry(registry[scan_tasks[t].domain].id, clock,
                      scan_tasks[t], scan_tasks[t].changed)})
  /\ scan_tasks' = [scan_tasks EXCEPT ![t].pc = "done"]
  /\ UNCHANGED <<norm_vars, server_vars, feed_vars, registry, row_count, workflow_pc, clock,
                 unreachable, domain_data, prioritized, scan_i, scan_runs,
                 available_vars, capture_vars>>

\* asyncio.gather returns once every coroutine of the batch has returned or
\* raised; the loop goes on to the next batch or scan_domains ends
ScanBatchDone ==
  /\ workflow_pc = "scanning"
  /\ \A t \in DOMAIN scan_tasks : scan_tasks[t].pc \in {"done", "raised"}
  /\ IF scan_i + scan_max_concurrent < Len(prioritized)
     THEN /\ scan_i' = scan_i + scan_max_concurrent
          /\ scan_tasks' = ScanBatch(prioritized, scan_i + scan_max_concurrent)
          /\ UNCHANGED <<workflow_pc, scan_runs, domain_data, prioritized>>
     ELSE /\ workflow_pc' = "idle"
          /\ scan_runs' = scan_runs + 1
          /\ scan_i' = 0
          /\ scan_tasks' = <<>>
          /\ domain_data' = <<>>
          /\ prioritized' = <<>>
  /\ UNCHANGED <<norm_vars, server_vars, feed_vars, registry, row_count, history, clock, unreachable,
                 available_vars, capture_vars>>

\* the coroutines of a scan batch and the end of the batch
ScanSteps ==
  \/ \E t \in 1..scan_max_concurrent :
       Probe(t) \/ UpsertSelect(t) \/ UpsertWrite(t) \/ AddHistory(t)
  \/ ScanBatchDone

\* a run of scan_domains starts
ScanRun == scan_runs < MaxScans /\ ScanStart

\* main(): step 2 of a workflow run, parse_and_filter_domains
WorkflowParse == workflow_pc = "idle" /\ ParseRun

ScanNext == WorkflowParse \/ ScanRun \/ ScanSteps

ScanSpec == ScanInit /\ [][ScanNext]_vars

\* capture_screenshots up to the first batch: the active rows, the index,
\* the targets, the coroutines of the first batch; it returns at once when
\* the screenshot module is missing or nothing needs a capture
CaptureStart ==
  /\ workflow_pc = "idle"
  /\ IF ~SCREENSHOT_AVAILABLE
     THEN /\ capture_runs' = capture_runs + 1
          /\ clock' = clock + 1
          /\ UNCHANGED <<workflow_pc, domains_to_capture, capture_i,
                         capture_tasks, results>>
     ELSE \E all_domains \in AllDomainsOrders(registry) :
            \E targets \in {SelectTargets(all_domains, registry, index)} :
              /\ clock' = clock + 1
              /\ results' = <<>>
              /\ capture_i' = 0
              /\ domains_to_capture' = targets
              /\ capture_tasks' = CaptureBatch(targets, 0)
              /\ IF targets = <<>>
                 THEN /\ capture_runs' = capture_runs + 1
                      /\ UNCHANGED workflow_pc
                 ELSE /\ workflow_pc' = "capturing"
                      /\ UNCHANGED capture_runs
  /\ UNCHANGED <<norm_vars, server_vars, feed_vars, registry, row_count, history, unreachable,
                 scan_vars, available_vars, index, SCREENSHOT_DIR>>

\* capture_single up to the end of the fast tier (capture_with_html2image
\* is a plain call): success returns the result, anything else falls back
CaptureTier1(t) ==
  /\ workflow_pc = "capturing"
  /\ t \in DOMAIN capture_tasks
  /\ capture_tasks[t].pc = "tier1"
  /\ IF HTML2IMAGE_AVAILABLE
     THEN \E outcome \in RenderOutcomes :
            \E verdict \in {TierVerdict(outcome)} :
              /\ SCREENSHOT_DIR' =
                   [SCREENSHOT_DIR EXCEPT
                      ![capture_tasks[t].filename] = FileAfterTier1(@, outcome)]
              /\ capture_tasks' =
                   [capture_tasks EXCEPT
                      ![t].tier1 = verdict,
                      ![t].success = (verdict = "ok"),
                      ![t].method = IF verdict = "ok" THEN Tier1Method ELSE None,
                      ![t].pc = AfterTier1(verdict = "ok")]
     ELSE /\ capture_tasks' =
               [capture_tasks EXCEPT
                  ![t].tier1 = "unavailable",
                  ![t].pc = AfterTier1(FALSE)]
          /\ UNCHANGED SCREENSHOT_DIR
  /\ UNCHANGED <<norm_vars, server_vars, feed_vars, registry, row_count, history, workflow_pc, clock,
                 unreachable, scan_vars, available_vars, index,
                 domains_to_capture, capture_i, results, capture_runs>>

\* capture_single from the fallback on: capture_with_playwright, then the
\* result; a missing playwright module makes the call return False
CaptureTier2(t) ==
  /\ workflow_pc = "capturing"
  /\ t \in DOMAIN capture_tasks
  /\ capture_tasks[t].pc = "tier2"
  /\ IF PLAYWRIGHT_AVAILABLE
     THEN \E outcome \in RenderOutcomes :
            \E verdict \in {TierVerdict(outcome)} :
              /\ SCREENSHOT_DIR' =
                   [SCREENSHOT_DIR EXCEPT
                      ![capture_tasks[t].filename] = FileAfterTier2(@, outcome)]
              /\ capture_tasks' =
                   [capture_tasks EXCEPT
                      ![t].tier2 = verdict,
                      ![t].success = (@ \/ verdict = "ok"),
                      ![t].method = IF verdict = "ok" THEN Tier2Method ELSE @,
                      ![t].pc = "done"]
     ELSE /\ capture_tasks' =
               [capture_tasks EXCEPT
                  ![t].tier2 = "unavailable",
                  ![t].pc = "done"]
          /\ UNCHANGED SCREENSHOT_DIR
  /\ UNCHANGED <<norm_vars, server_vars, feed_vars, registry, row_count, history, workflow_pc, clock,
                 unreachable, scan_vars, available_vars, index,
                 domains_to_capture, capture_i, results, capture_runs>>

\* an exception that the handlers of the two tiers do not catch ends the
\* coroutine capture_single before the fast tier or before the fallback
CaptureRaise(t) ==
  /\ workflow_pc = "capturing"
  /\ t \in DOMAIN capture_tasks
  /\ capture_tasks[t].pc \in {"tier1", "tier2"}
  /\ capture_tasks' = [capture_tasks EXCEPT ![t].pc = "raised"]
  /\ UNCHANGED <<norm_vars, server_vars, feed_vars, registry, row_count, history, workflow_pc, clock,
                 unreachable, scan_vars, available_vars, index, SCREENSHOT_DIR,
                 domains_to_capture, capture_i, results, capture_runs>>

\* the loop over batch_results: the result of a coroutine that returned, or
\* the failure entry of one that raised, in batch order
BatchResults_drop(tasks) ==
  LET returned == SelectSeq([t \in DOMAIN tasks |-> tasks[t]],
                            LAMBDA task : task.pc # "raised")
  IN  [t \in DOMAIN returned |-> ResultOf(returned[t])]
BatchResults(tasks) ==
  [t \in DOMAIN tasks |->
     IF tasks[t].pc = "raised" THEN ErrorResult ELSE ResultOf(tasks[t])]

\* asyncio.gather returns once every coroutine of the batch has returned or
\* raised; the loop goes on to the next batch, or capture_batch_parallel returns and
\* capture_screenshots updates and saves the index
CaptureBatchDone ==
  /\ workflow_pc = "capturing"
  /\ \A t \in DOMAIN capture_tasks : capture_tasks[t].pc \in {"done", "raised"}
  /\ IF capture_i + capture_max_concurrent < Len(domains_to_capture)
     THEN /\ capture_i' = capture_i + capture_max_concurrent
          /\ capture_tasks' =
               CaptureBatch(domains_to_capture, capture_i + capture_max_concurrent)
          /\ results' = results \o BatchResults(capture_tasks)
          /\ UNCHANGED <<workflow_pc, capture_runs, index, domains_to_capture>>
     ELSE /\ index' = UpdateIndex(index, results \o BatchResults(capture_tasks), clock)
          /\ workflow_pc' = "idle"
          /\ capture_runs' = capture_runs + 1
          /\ capture_i' = 0
          /\ capture_tasks' = <<>>
          /\ results' = results \o BatchResults(capture_tasks)
          /\ domains_to_capture' = <<>>
  /\ UNCHANGED <<norm_vars, server_vars, feed_vars, registry, row_count, history, clock, unreachable,
                 scan_vars, available_vars, SCREENSHOT_DIR>>

\* the import outcomes explored
Availability ==
  { <<TRUE, TRUE, TRUE>>, <<FALSE, TRUE, TRUE>>,
    <<TRUE, FALSE, TRUE>>, <<TRUE, TRUE, FALSE>> }

CaptureInit ==
  /\ NormIdle
  /\ ServerIdle
  /\ AfterFeed({sorted(<<pay_absa, absa_net>>)}, {<<>>})
  /\ MonitorFresh
  /\ unreachable = {}
  /\ \E a \in Availability :
       /\ HTML2IMAGE_AVAILABLE = a[1]
       /\ PLAYWRIGHT_AVAILABLE = a[2]
       /\ SCREENSHOT_AVAILABLE = a[3]

\* main(): step 3 of a workflow run, scan_domains
WorkflowScan ==
  scan_runs = capture_runs /\ clock < MaxClock /\ ScanStart

\* main(): step 4 of a workflow run, capture_screenshots
WorkflowCapture ==
  capture_runs < scan_runs /\ clock < MaxClock /\ CaptureStart

CaptureNext ==
  \/ WorkflowScan
  \/ ScanSteps
  \/ WorkflowCapture
  \/ \E t \in 1..capture_max_concurrent : CaptureTier1(t) \/ CaptureTier2(t)
  \/ CaptureBatchDone

CaptureSpec == CaptureInit /\ [][CaptureNext]_vars

(***************************************************************************)
(* Properties of the scanner and of the capturer                           *)
(***************************************************************************)

\* the rows a step wrote
WrittenRows ==
  {d \in DOMAIN registry' : d \notin DOMAIN registry \/ registry'[d] # registry[d]}

\* C3: scan_single_domain sets content_changed to true exactly when the
\* probe produced a fingerprint, the registry held a non-empty previous
\* fingerprint for the domain, and the two differ; it is false on the first
\* successful scan and when the fingerprint equals the stored one.
C3_ContentChangedExact ==
  [][\A d \in WrittenRows :
       registry'[d].content_changed =
         (/\ registry'[d].content_hash # ""
          /\ d \in DOMAIN registry
          /\ registry[d].content_hash # ""
          /\ registry[d].content_hash # registry'[d].content_hash)]_vars

\* every coroutine of the batch in flight has returned or raised
BatchComplete ==
  /\ workflow_pc = "scanning"
  /\ scan_tasks # <<>>
  /\ \A t \in DOMAIN scan_tasks : scan_tasks[t].pc \in {"done", "raised"}

\* the domain has its result, its registry row and its history entry of
\* this scan
ScannedInBatch(d) ==
  /\ \E t \in DOMAIN scan_tasks :
       scan_tasks[t].domain = d /\ scan_tasks[t].pc = "done"
  /\ d \in DOMAIN registry
  /\ registry[d].last_checked = clock
  /\ \E h \in BagToSet(history) :
       h.domain_id = registry[d].id /\ h.checked_at = clock

\* C4: in a scan batch in which one domain's probes always time out, every
\* other domain of the batch still gets its result, its registry upsert and
\* its history entry, and the failing domain is recorded as inactive with an
\* empty fingerprint.
C4_BatchIsolation ==
  BatchComplete =>
    \A t \in DOMAIN scan_tasks :
      /\ ScannedInBatch(scan_tasks[t].domain)
      /\ scan_tasks[t].domain \in unreachable =>
           /\ ~registry[scan_tasks[t].domain].is_active
           /\ registry[scan_tasks[t].domain].content_hash = ""

\* C4 witness: a complete batch with a domain that timed out and another
\* domain that was found active.
C4_Witness ==
  /\ BatchComplete
  /\ \E t, u \in DOMAIN scan_tasks :
       /\ scan_tasks[t].domain \in unreachable
       /\ scan_tasks[t].pc = "done"
       /\ scan_tasks[u].domain \notin unreachable
       /\ scan_tasks[u].pc = "done"
       /\ scan_tasks[u].is_active

\* the active registry domains with no index entry, or with an entry whose
\* last_content_hash differs from the registry fingerprint
NeedingCapture ==
  {d \in DOMAIN registry :
     /\ registry[d].is_active
     /\ \/ d \notin DOMAIN index
        \/ index[d].last_content_hash # registry[d].content_hash}

\* C5: capture_screenshots (with the screenshot module imported) selects an
\* active registry domain as a target if and only if the index has no entry
\* for it or the entry's last_content_hash differs from the registry
\* fingerprint; no capture is attempted for any other domain.
C5_TargetsExactly ==
  [][/\ (CaptureStart /\ SCREENSHOT_AVAILABLE) =>
          {domains_to_capture'[i].domain : i \in DOMAIN domains_to_capture'}
            = NeedingCapture
     /\ \A t \in DOMAIN capture_tasks' :
          capture_tasks'[t].domain \in NeedingCapture]_vars

\* C5 witness: a capture run that selected a domain whose index entry has
\* another fingerprint and skipped an active domain whose entry is current.
C5_Witness ==
  /\ workflow_pc = "capturing"
  /\ \E t \in DOMAIN capture_tasks :
       /\ capture_tasks[t].domain \in DOMAIN index
       /\ capture_tasks[t].pc = "done"
  /\ \E d \in DOMAIN registry :
       /\ registry[d].is_active
       /\ d \in DOMAIN index
       /\ index[d].last_content_hash = registry[d].content_hash
       /\ \A i \in DOMAIN domains_to_capture : domains_to_capture[i].domain # d

\* the fast tier failed or is unavailable
Tier1Failed(task) == task.tier1 \in {"undersized", "exception", "unavailable"}

\* capture_with_playwright was called
Tier2Attempted(task) == task.tier2 # "untried"

\* the reliable tier is attempted exactly when the fast tier failed or is
\* unavailable; its success is recorded under the given method name in the
\* result, and the index entry of every successful result carries the
\* result's method and fingerprint
TierRule(method) ==
  /\ \A t \in DOMAIN capture_tasks' :
       capture_tasks'[t].pc = "done" =>
         /\ Tier2Attempted(capture_tasks'[t]) <=> Tier1Failed(capture_tasks'[t])
         /\ capture_tasks'[t].tier2 = "ok" =>
              /\ ResultOf(capture_tasks'[t]).success
              /\ ResultOf(capture_tasks'[t]).method = method
  /\ (CaptureBatchDone /\ workflow_pc' = "idle") =>
       \A i \in DOMAIN (results \o BatchResults(capture_tasks)) :
         (results \o BatchResults(capture_tasks))[i].success =>
           /\ (results \o BatchResults(capture_tasks))[i].domain \in DOMAIN index'
           /\ index'[(results \o BatchResults(capture_tasks))[i].domain].capture_method
                = (results \o BatchResults(capture_tasks))[i].method
           /\ index'[(results \o BatchResults(capture_tasks))[i].domain].last_content_hash
                = (results \o BatchResults(capture_tasks))[i].content_hash

\* C6: in capture_single the reliable tier is attempted if and only if the
\* fast tier failed or is unavailable, and when the reliable tier then
\* succeeds the capture is recorded as a success with capture_method "tier2"
\* in the result and in the index entry.
C6_Tier2RecordedAsTier2 == [][TierRule("tier2")]_vars

\* C6 as amended: the same, with the success of the reliable tier recorded
\* as capture_method "playwright" in the result and in the index entry.
C6_Tier2RecordedAsPlaywright == [][TierRule("playwright")]_vars

\* C6 witness: with html2image imported, the index holds an entry captured
\* by the reliable tier: the fast tier failed for that domain.
C6_Witness ==
  /\ HTML2IMAGE_AVAILABLE
  /\ \E d \in DOMAIN index : index[d].capture_method = "playwright"

\* the priority group scan_domains put a candidate in, from the snapshot:
\* 1 already known active, 2 unknown to the registry, 3 already known inactive
PriorityGroup(domain) ==
  IF domain \notin DOMAIN domain_data THEN 2
  ELSE IF domain_data[domain].is_active THEN 1
  ELSE 3

\* the probes of the candidate at position j of prioritized have completed
ProbesCompleted(j) ==
  \/ j <= scan_i
  \/ /\ j - scan_i \in DOMAIN scan_tasks
     /\ scan_tasks[j - scan_i].pc # "probe"

\* C11: the three priority groups are scanned in strict group order: when
\* the probes of a candidate run, the probes of every candidate of an
\* earlier group (active before unknown before inactive) have completed,
\* whatever the group sizes are relative to the batch size.
C11_StrictGroupOrder ==
  [][\A t \in 1..scan_max_concurrent :
       Probe(t) =>
         \A j \in DOMAIN prioritized :
           PriorityGroup(prioritized[j]) < PriorityGroup(scan_tasks[t].domain)
             => ProbesCompleted(j)]_vars

\* the history entries of the scan in progress for a domain
ScanEntries(domain) ==
  {h \in BagToSet(history) :
     h.domain_id = NewId(domain) /\ h.checked_at = clock}

\* how many history entries this scan appended for a domain
HistoryCount(domain) ==
  BagCardinality([h \in ScanEntries(domain) |-> CopiesIn(h, history)])

\* C12: when a batch of scan_domains starts, every domain of the batches
\* before it has its registry record upserted by this scan and exactly one
\* history entry appended for this scan.
C12_BatchCheckpoint ==
  workflow_pc = "scanning" =>
    \A j \in 1..scan_i :
      /\ prioritized[j] \in DOMAIN registry
      /\ registry[prioritized[j]].last_checked = clock
      /\ HistoryCount(prioritized[j]) = 1

\* C16: in one run of scan_domains each candidate domain is scanned by one
\* coroutine only, also when the candidate file lists it on several lines:
\* the scan list holds it once, no two coroutines of a batch scan the same
\* domain, and the run appends at most one history entry for it.
C16_ScannedOnce ==
  workflow_pc = "scanning" =>
    /\ \A i, j \in DOMAIN prioritized :
         i # j => prioritized[i] # prioritized[j]
    /\ \A t, u \in DOMAIN scan_tasks :
         t # u => scan_tasks[t].domain # scan_tasks[u].domain
    /\ \A i \in DOMAIN prioritized : HistoryCount(prioritized[i]) <= 1

\* C20: once a registry record exists for a domain, no step of a scan (no
\* call of upsert_domain) changes its first_seen, whatever first_seen
\* argument the call passes.
C20_FirstSeenImmutable ==
  [][\A d \in DOMAIN registry :
       /\ d \in DOMAIN registry'
       /\ registry'[d].first_seen = registry[d].first_seen]_vars

\* C20 witness: upsert_domain updated the record of a domain with a
\* first_seen argument (the date the ledger got for it since the record was
\* created) other than the stored first_seen.
C20_Witness ==
  /\ workflow_pc = "scanning"
  /\ \E t \in DOMAIN scan_tasks :
       /\ scan_tasks[t].pc \in {"history", "done"}
       /\ scan_tasks[t].existing
       /\ registry[scan_tasks[t].domain].last_checked = clock
       /\ TaskArgs(scan_tasks[t]).first_seen
            # registry[scan_tasks[t].domain].first_seen

\* the coroutine is the only one of its batch that upserts its domain
AloneInBatch(t) ==
  \A u \in DOMAIN scan_tasks :
    u # t => scan_tasks[u].domain # scan_tasks[t].domain

\* C15: under every interleaving of the concurrent upsert_domain calls of a
\* batch the registry holds at most one record per domain key, and the
\* upserts of distinct domains each complete with their own record: none
\* raises, and the record of the domain carries the values of its upsert.
C15_UpsertAtomic ==
  /\ \A d \in DOMAIN row_count : row_count[d] <= 1
  /\ DOMAIN row_count = DOMAIN registry
  /\ \A t \in DOMAIN scan_tasks :
       AloneInBatch(t) =>
         /\ scan_tasks[t].pc # "raised"
         /\ scan_tasks[t].pc \in {"history", "done"} =>
              /\ scan_tasks[t].domain \in DOMAIN registry
              /\ registry[scan_tasks[t].domain].last_checked = clock
              /\ registry[scan_tasks[t].domain].is_active
                   = scan_tasks[t].is_active
              /\ registry[scan_tasks[t].domain].content_hash
                   = OrEmpty(scan_tasks[t].content_hash)
              /\ registry[scan_tasks[t].domain].content_changed
                   = scan_tasks[t].changed

\* C15 witness: a complete batch of two distinct new domains whose upserts
\* both took the INSERT path and left one row each.
C15_Witness ==
  /\ BatchComplete
  /\ \E t, u \in DOMAIN scan_tasks :
       /\ scan_tasks[t].domain # scan_tasks[u].domain
       /\ ~scan_tasks[t].existing /\ scan_tasks[t].pc = "done"
       /\ ~scan_tasks[u].existing /\ scan_tasks[u].pc = "done"
       /\ row_count[scan_tasks[t].domain] = 1
       /\ row_count[scan_tasks[u].domain] = 1

(***************************************************************************)
(* OverlaySpec: runs of scan_domains while the field-level mutations of    *)
(* the registry (db_manager.py update_domain_notes, update_risk_level,     *)
(* update_profile_status) are invoked by the dashboard                     *)
(***************************************************************************)

\* the domains the dashboard annotates, and the values it writes
AnnotatedDomains == {absa_net}
NotesValues == {"investigate"}
TagsValues == { <<"typo">> }
ProfileValues == {TRUE}

\* UPDATE domains SET notes = ?, updated_at = ? WHERE domain = ?
update_domain_notes(domain, notes) ==
  /\ domain \in DOMAIN registry
  /\ registry[domain].notes # notes
  /\ registry' = [registry EXCEPT ![domain].notes = notes]
  /\ UNCHANGED <<norm_vars, server_vars, feed_vars, row_count, history, workflow_pc, clock,
                 unreachable, scan_vars, available_vars, capture_vars>>

\* UPDATE domains SET tags = ?, updated_at = ? WHERE domain = ?
update_risk_level(domain, tags) ==
  /\ domain \in DOMAIN registry
  /\ registry[domain].tags # tags
  /\ registry' = [registry EXCEPT ![domain].tags = tags]
  /\ UNCHANGED <<norm_vars, server_vars, feed_vars, row_count, history, workflow_pc, clock,
                 unreachable, scan_vars, available_vars, capture_vars>>

\* UPDATE domains SET has_profile = ?, updated_at = ? WHERE domain = ?
update_profile_status(domain, has_profile) ==
  /\ domain \in DOMAIN registry
  /\ registry[domain].has_profile # has_profile
  /\ registry' = [registry EXCEPT ![domain].has_profile = has_profile]
  /\ UNCHANGED <<norm_vars, server_vars, feed_vars, row_count, history, workflow_pc, clock,
                 unreachable, scan_vars, available_vars, capture_vars>>

OverlayInit ==
  /\ NormIdle
  /\ ServerIdle
  /\ AfterFeed({sorted(<<pay_absa, absa_net>>)}, {<<>>})
  /\ MonitorFresh
  /\ unreachable = {}
  /\ HTML2IMAGE_AVAILABLE = TRUE
  /\ PLAYWRIGHT_AVAILABLE = TRUE
  /\ SCREENSHOT_AVAILABLE = TRUE

\* a mutation request of the dashboard
Mutation ==
  \E domain \in AnnotatedDomains :
    \/ \E notes \in NotesValues : update_domain_notes(domain, notes)
    \/ \E tags \in TagsValues : update_risk_level(domain, tags)
    \/ \E has_profile \in ProfileValues : update_profile_status(domain, has_profile)

OverlayNext == ScanRun \/ ScanSteps \/ Mutation

OverlaySpec == OverlayInit /\ [][OverlayNext]_vars

\* the fields of a record that the scanner does not own
Overlay(row) ==
  [notes |-> row.notes, risk_level |-> row.risk_level, tags |-> row.tags,
   category |-> row.category, has_profile |-> row.has_profile]

\* C13: a scan of a domain that already has a registry record writes only
\* the scanner-owned fields: notes, risk_level, tags, category and
\* has_profile of the record are the same after the upsert of
\* scan_single_domain as before it.
C13_ScanKeepsOverlay ==
  [][\A t \in 1..scan_max_concurrent :
       (UpsertWrite(t) /\ scan_tasks[t].existing) =>
         Overlay(registry'[scan_tasks[t].domain])
           = Overlay(registry[scan_tasks[t].domain])]_vars

\* C14: a notes, tags or profile-flag value written to a domain's record
\* after scan_domains read its snapshot (the record differs from the
\* snapshot in that field) is still in the record after the scan's upsert of
\* that domain: the scan never puts the older snapshot value back.
C14_MutationSurvivesScan ==
  [][\A t \in 1..scan_max_concurrent :
       (/\ UpsertWrite(t)
        /\ scan_tasks[t].existing
        /\ scan_tasks[t].domain \in DOMAIN domain_data) =>
         /\ registry[scan_tasks[t].domain].notes
              # domain_data[scan_tasks[t].domain].notes
            => registry'[scan_tasks[t].domain].notes
                 = registry[scan_tasks[t].domain].notes
         /\ registry[scan_tasks[t].domain].tags
              # domain_data[scan_tasks[t].domain].tags
            => registry'[scan_tasks[t].domain].tags
                 = registry[scan_tasks[t].domain].tags
         /\ registry[scan_tasks[t].domain].has_profile
              # domain_data[scan_tasks[t].domain].has_profile
            => registry'[scan_tasks[t].domain].has_profile
                 = registry[scan_tasks[t].domain].has_profile]_vars

\* both capture tiers failed for the domain of the coroutine
BothTiersFailed(task) ==
  /\ Tier1Failed(task)
  /\ task.tier2 \in {"undersized", "exception", "unavailable"}

\* the domain has the same index entry, or none, in both indexes
SameEntry(old, new, domain) ==
  /\ domain \in DOMAIN new <=> domain \in DOMAIN old
  /\ domain \in DOMAIN old => new[domain] = old[domain]

\* C17: a capture both tiers failed on is reported as failed, the index
\* update of the run leaves the entry of every failed domain as it was
\* (absent or with the old fingerprint), and a run of capture_screenshots
\* selects every active domain whose fingerprint differs from its index
\* entry, so the failed domain is a target again.
C17_FailedCaptureRetried ==
  [][/\ \A t \in DOMAIN capture_tasks' :
          (capture_tasks'[t].pc = "done" /\ BothTiersFailed(capture_tasks'[t]))
            => ~ResultOf(capture_tasks'[t]).success
     /\ (CaptureBatchDone /\ workflow_pc' = "idle") =>
          \A i \in DOMAIN (results \o BatchResults(capture_tasks)) :
            ~(results \o BatchResults(capture_tasks))[i].success =>
              SameEntry(index, index',
                        (results \o BatchResults(capture_tasks))[i].domain)
     /\ (CaptureStart /\ SCREENSHOT_AVAILABLE) =>
          \A d \in DOMAIN registry :
            (registry[d].is_active /\ LastHash(index, d) # registry[d].content_hash)
              => \E i \in DOMAIN domains_to_capture' :
                   domains_to_capture'[i].domain = d]_vars

\* C17 witness: a capture run has a coroutine for a domain that has no index
\* entry although an earlier scan, followed by a capture run, had already
\* found it active: the earlier capture of the domain failed on both tiers.
C17_Witness ==
  /\ workflow_pc = "capturing"
  /\ SCREENSHOT_AVAILABLE
  /\ \E t \in DOMAIN capture_tasks :
       /\ capture_tasks[t].domain \notin DOMAIN index
       /\ \E h \in BagToSet(history) :
            /\ h.domain_id = registry[capture_tasks[t].domain].id
            /\ h.is_active
            /\ h.checked_at + 3 <= clock

\* C18: when a run of capture_screenshots ends, the history entry of the
\* latest scan of every domain it captured successfully has
\* screenshot_taken set to true.
C18_ScreenshotTakenMarked ==
  [][(CaptureBatchDone /\ workflow_pc' = "idle") =>
       \A i \in DOMAIN (results \o BatchResults(capture_tasks)) :
         (results \o BatchResults(capture_tasks))[i].success =>
           \E h \in BagToSet(history') :
             /\ h.domain_id
                  = registry[(results \o BatchResults(capture_tasks))[i].domain].id
             /\ h.checked_at
                  = registry[(results \o BatchResults(capture_tasks))[i].domain].last_checked
             /\ h.screenshot_taken]_vars

\* C19: a domain whose normalized form is in both the ignore set and the
\* include set is excluded: it is not in the batch that
\* parse_and_filter_domains merged, nor on a line of the cumulative
\* candidate file.
C19_IgnoreBeatsInclude ==
  \A d \in Range(merged_domains) \cup Range(FILTERED_DOMAINS_FILE) :
    ~(/\ normalize_domain(d) \in load_whitelist_set(IGNORE_FILE)
      /\ normalize_domain(d) \in load_whitelist_set(INCLUDE_FILE))

(***************************************************************************)
(* Properties of download_nrd_lists                                        *)
(***************************************************************************)

\* the days a window of WindowDays days holds when today is its first day
DaysFromToday(now) == {now - i : i \in 0..(WindowDays - 1)}

\* the artifacts a run of download_nrd_lists has just written
NewlyStored == {k \in Keys : ~DAILY_DIR[k].exists /\ DAILY_DIR'[k].exists}

\* C21: a run of download_nrd_lists covers, for each source, the last
\* WindowDays calendar days counting today as the first day; the artifact it
\* stores under a day key holds the feed the source published for that same
\* day; and the "today" alias of a source is requested only for the artifact
\* keyed by today's date.
C21_WindowAndDayKeys ==
  [][DownloadRun =>
       /\ WindowKeys(today) = Sources \X DaysFromToday(today)
       /\ \A k \in NewlyStored :
            DAILY_DIR'[k].lines = Upstream(k[1], today, <<"dated", k[2]>>)
       /\ \A r \in requests' : r[2][1] = "alias" => r[1][2] = today]_vars

(***************************************************************************)
(* BatchSpec: one workflow run, scan_domains and then capture_screenshots, *)
(* over three candidates, so that both batch loops go round more than      *)
(* once; a capture coroutine may raise                                     *)
(***************************************************************************)

BatchInit ==
  /\ NormIdle
  /\ ServerIdle
  /\ AfterFeed({sorted(<<pay_absa, absa_net, absa_co_za>>)}, {<<>>})
  /\ MonitorIdle

\* main(): steps 3 and 4 of the first workflow run
BatchScan == scan_runs = 0 /\ ScanStart

BatchCapture == scan_runs = 1 /\ capture_runs = 0 /\ CaptureStart

BatchNext ==
  \/ BatchScan
  \/ ScanSteps
  \/ BatchCapture
  \/ \E t \in 1..capture_max_concurrent :
       CaptureTier1(t) \/ CaptureTier2(t) \/ CaptureRaise(t)
  \/ CaptureBatchDone

BatchSpec == BatchInit /\ [][BatchNext]_vars

\* the coroutines of the batch that have neither returned nor raised
ProbesInFlight ==
  {t \in DOMAIN scan_tasks : scan_tasks[t].pc \notin {"done", "raised"}}

CapturesInFlight ==
  {t \in DOMAIN capture_tasks : capture_tasks[t].pc \notin {"done", "raised"}}

\* C22: at every moment of scan_domains at most max_concurrent domain probes
\* are in flight and at every moment of capture_batch_parallel at most
\* max_concurrent captures are in flight; a batch starts only after every
\* task of the previous batch has finished.
C22_BoundedBatches ==
  /\ [](/\ Cardinality(ProbesInFlight) <= scan_max_concurrent
        /\ Cardinality(CapturesInFlight) <= capture_max_concurrent)
  /\ [][/\ scan_i' > scan_i => ProbesInFlight = {}
        /\ capture_i' > capture_i => CapturesInFlight = {}]_vars

\* C22 witness: the second batch of a capture run is in flight, after a scan
\* whose second batch had started with a full first batch behind it.
C22_Witness ==
  /\ workflow_pc = "capturing"
  /\ capture_i > 0
  /\ CapturesInFlight # {}
  /\ Cardinality(DOMAIN registry) > scan_max_concurrent

\* C23: capture_batch_parallel returns exactly one result per target, and an
\* exception raised inside one capture task yields a failure result for that
\* task only: every other task of the batch runs to its end and its result
\* is the one it returned, the results of earlier batches stay as they were,
\* and the batches after it still run.
C23_CrashIsolated ==
  [][CaptureBatchDone =>
       /\ Len(results') = capture_i + Len(capture_tasks)
       /\ SubSeq(results', 1, Len(results)) = results
       /\ \A t \in DOMAIN capture_tasks :
            IF capture_tasks[t].pc = "raised"
            THEN ~results'[capture_i + t].success
            ELSE /\ capture_tasks[t].pc = "done"
                 /\ results'[capture_i + t] = ResultOf(capture_tasks[t])
       /\ IF capture_i + Len(capture_tasks) < Len(domains_to_capture)
          THEN workflow_pc' = "capturing" /\ capture_tasks' # <<>>
          ELSE workflow_pc' = "idle" /\ Len(results') = Len(domains_to_capture)]_vars

\* C23 witness: capture_batch_parallel has returned three results; in the
\* first batch one coroutine raised and its sibling captured with success,
\* and the coroutine of the second batch captured with success as well.
C23_Witness ==
  /\ workflow_pc = "idle"
  /\ Len(results) = 3
  /\ \E t \in 1..2 : results[t] = ErrorResult /\ results[3 - t].success
  /\ results[3].success

(***************************************************************************)
(* ResumeSpec: the feed stages with runs of parse_and_filter_domains that  *)
(* are interrupted inside the loop over the daily files                    *)
(***************************************************************************)

\* a run of parse_and_filter_domains that is killed after the per-day output
\* of the n-th daily file: the outputs written so far stay, the ledger and
\* the matches held in memory are lost with the process
ParseCrash ==
  /\ parse_runs < MaxRuns
  /\ \E files \in {InFileOrder({k \in Keys : DAILY_DIR[k].exists})} :
       \E n \in 1..Len(files) :
         \E acc \in {ProcessFiles(SubSeq(files, 1, n), DAILY_DIR,
                                  load_whitelist_set(IGNORE_FILE),
                                  [map |-> load_first_seen_map(FIRST_SEEN_FILE),
                                   bydate |-> BYDATE_DIR,
                                   all_filtered |-> <<>>])} :
           /\ acc.bydate # BYDATE_DIR
           /\ BYDATE_DIR' = acc.bydate
  /\ UNCHANGED <<norm_vars, server_vars, monitor_vars, upstream_shift, today, DAILY_DIR, requests,
                 FIRST_SEEN_FILE, FILTERED_DOMAINS_FILE, merged_domains,
                 IGNORE_FILE, INCLUDE_FILE, parse_runs>>

\* a fresh installation with an empty include list
ResumeInit ==
  /\ NormIdle
  /\ ServerIdle
  /\ FeedFresh
  /\ IGNORE_FILE \in IgnoreFiles
  /\ INCLUDE_FILE = <<>>
  /\ upstream_shift = 0
  /\ MonitorIdle

ResumeNext == Tick \/ DownloadRun \/ ParseRun \/ ParseCrash

ResumeSpec == ResumeInit /\ [][ResumeNext]_vars

\* C24: when a run of parse_and_filter_domains completes, every domain
\* matched on a day whose per-day output exists (written by this run or by
\* an earlier one, interrupted or not) is in the first-seen ledger and, if it
\* passes the strict filter, in the cumulative candidate file.
C24_NoCandidateLost ==
  [][parse_runs' = parse_runs + 1 =>
       \A k \in Keys :
         BYDATE_DIR'[k].exists =>
           \A d \in Range(all_matches(BYDATE_DIR'[k])) :
             /\ Lower(d) \in DOMAIN FIRST_SEEN_FILE'
             /\ StrictMatch(d) => d \in Range(FILTERED_DOMAINS_FILE')]_vars

(***************************************************************************)
(* Properties of the registry records                                      *)
(***************************************************************************)

\* the history entries of the successful fetches of a domain
SuccessfulFetches(domain) ==
  {h \in BagToSet(history) : h.domain_id = NewId(domain) /\ h.is_active}

\* the fingerprints of the most recent successful fetch of a domain (more
\* than one when the domain was fetched twice in one scan)
LastFingerprints(domain) ==
  {h.content_hash : h \in {g \in SuccessfulFetches(domain) :
                             \A f \in SuccessfulFetches(domain) :
                               f.checked_at <= g.checked_at}}

\* C25: between scans, the content_hash of a registry record is the
\* fingerprint of the most recent successful fetch of its domain: a scan
\* whose probes all fail leaves the stored fingerprint in place.
C25_HashOfLastSuccess ==
  workflow_pc = "idle" =>
    \A d \in DOMAIN registry :
      LastFingerprints(d) # {} => registry[d].content_hash \in LastFingerprints(d)

\* the five categories of the classification
Categories == {"golden", "absa", "coza", "africa", "pattern"}

\* C27: every registry record has category in {golden, absa, coza, africa,
\* pattern}, the record created for a candidate not yet in the registry
\* included.
C27_CategoryOfFive ==
  \A d \in DOMAIN registry : registry[d].category \in Categories

\* C26: once a capture batch has completed, the screenshot index on disk has
\* an entry, with the captured fingerprint, for every domain captured with
\* success in that batch or in an earlier one.
C26_IndexCheckpoint ==
  \A i \in DOMAIN results :
    results[i].success =>
      /\ results[i].domain \in DOMAIN index
      /\ index[results[i].domain].last_content_hash = results[i].content_hash

\* C28: every line of the cumulative candidate file that does not come from
\* the include list has a raw form that starts with or ends with the brand
\* token "absa", compared case-insensitively; a domain that has the token
\* only in the middle, or that matched only a pattern rule, is not appended.
C28_StrictBrandOnly ==
  \A d \in Range(FILTERED_DOMAINS_FILE) :
    d \notin load_whitelist_set(INCLUDE_FILE) =>
      /\ Len(d) >= 4
      /\ \/ SubSeq(Lower(d), 1, 4) = <<"a","b","s","a">>
         \/ SubSeq(Lower(d), Len(d) - 3, Len(d)) = <<"a","b","s","a">>

\* C28 witness: the processed days matched myabsa.net (token in the middle)
\* and pay.net (a pattern rule only) next to pay.absa; the candidate file
\* holds pay.absa and neither of the other two.
C28_Witness ==
  /\ \E k \in Keys : myabsa_net \in Range(BYDATE_DIR[k].absa_only)
  /\ \E k \in Keys : pay_net \in Range(BYDATE_DIR[k].pattern_matches)
  /\ pay_absa \in Range(FILTERED_DOMAINS_FILE)
  /\ myabsa_net \notin Range(FILTERED_DOMAINS_FILE)
  /\ pay_net \notin Range(FILTERED_DOMAINS_FILE)

(***************************************************************************)
(* PayloadSpec: the feed stages with sources that can also answer with a   *)
(* body that is not of the expected shape                                  *)
(***************************************************************************)

PayloadInit ==
  /\ NormIdle
  /\ ServerIdle
  /\ FeedFresh
  /\ IGNORE_FILE = <<>>
  /\ INCLUDE_FILE = <<>>
  /\ upstream_shift = 0
  /\ MonitorIdle

\* a run of download_nrd_lists with responses of any shape
DownloadAnyShape == Download(Shapes)

PayloadNext == Tick \/ DownloadAnyShape \/ ParseRun

PayloadSpec == PayloadInit /\ [][PayloadNext]_vars

\* C29: when the payload fetched for a source and day is not of the expected
\* shape, the run of download_nrd_lists writes no artifact for that source
\* and day, so that the day is fetched again by the next run; the artifacts
\* of the days it did not fetch with success and the ledger are unchanged.
C29_MalformedSkipped ==
  [][DownloadAnyShape =>
       /\ \A r \in requests' :
            r[3] = "other" => ~DAILY_DIR'[r[1]].exists /\ NeedsFetch(DAILY_DIR'[r[1]])
       /\ \A k \in Keys :
            (\A r \in requests' : r[1] = k => r[3] # "feed") =>
              DAILY_DIR'[k] = DAILY_DIR[k]
       /\ FIRST_SEEN_FILE' = FIRST_SEEN_FILE]_vars

(***************************************************************************)
(* KeySpec: parse_and_filter_domains and scan_domains over a day artifact  *)
(* that holds one domain in several raw forms                              *)
(***************************************************************************)

KeyInit ==
  /\ NormIdle
  /\ ServerIdle
  /\ upstream_shift = 0
  /\ today = FirstToday
  /\ DAILY_DIR = [k \in Keys |->
                    IF k = PendingKey THEN StoredArtifact(KeyFeed) ELSE Absent]
  /\ requests = {}
  /\ BYDATE_DIR = [k \in Keys |-> NoOutput]
  /\ FIRST_SEEN_FILE = <<>>
  /\ FILTERED_DOMAINS_FILE = <<>>
  /\ merged_domains = <<>>
  /\ IGNORE_FILE = <<>>
  /\ INCLUDE_FILE = <<>>
  /\ parse_runs = MaxRuns - 1
  /\ MonitorIdle

KeySpec == KeyInit /\ [][ScanNext]_vars

\* C30: two raw strings with the same normalized form never produce two
\* rows of the first-seen ledger or two records of the registry.
C30_KeysNormalized ==
  /\ \A a, b \in DOMAIN FIRST_SEEN_FILE :
       normalize_domain(a) = normalize_domain(b) => a = b
  /\ \A a, b \in DOMAIN registry :
       normalize_domain(a) = normalize_domain(b) => a = b

(***************************************************************************)
(* Properties of re-runs of parse_and_filter_domains                       *)
(***************************************************************************)

\* the lines a step appended to the cumulative candidate file
Appended ==
  SubSeq(FILTERED_DOMAINS_FILE', Len(FILTERED_DOMAINS_FILE) + 1,
         Len(FILTERED_DOMAINS_FILE'))

\* the days whose per-day output a step wrote
NewlyProcessed == {k \in Keys : ~BYDATE_DIR[k].exists /\ BYDATE_DIR'[k].exists}

\* every daily feed file has its per-day output
AllProcessed == \A k \in Keys : DAILY_DIR[k].exists => BYDATE_DIR[k].exists

\* C31: a run of parse_and_filter_domains in which every daily feed file
\* already has its per-day output changes no per-day output, leaves the
\* ledger unchanged and appends no feed-derived domain to the cumulative
\* candidate file; in every run the appended domains that do not come from
\* the include list were matched on a day processed in that run.
C31_RerunIsNoOp ==
  [][parse_runs' = parse_runs + 1 =>
       /\ \A k \in Keys : BYDATE_DIR[k].exists => BYDATE_DIR'[k] = BYDATE_DIR[k]
       /\ \A i \in DOMAIN Appended :
            \/ Appended[i] \in load_whitelist_set(INCLUDE_FILE)
            \/ \E k \in NewlyProcessed :
                 Appended[i] \in Range(all_matches(BYDATE_DIR'[k]))
       /\ AllProcessed =>
            /\ BYDATE_DIR' = BYDATE_DIR
            /\ FIRST_SEEN_FILE' = FIRST_SEEN_FILE]_vars

\* C31 witness: two runs are over and the second one found every daily file
\* processed: the candidate file holds feed-derived lines of the first run,
\* and the batch of the second run is the include list alone.
C31_Witness ==
  /\ parse_runs = 2
  /\ AllProcessed
  /\ \E k \in Keys : BYDATE_DIR[k].exists
  /\ INCLUDE_FILE # <<>>
  /\ Range(merged_domains) = load_whitelist_set(INCLUDE_FILE)
  /\ \E i \in DOMAIN FILTERED_DOMAINS_FILE :
       FILTERED_DOMAINS_FILE[i] \notin load_whitelist_set(INCLUDE_FILE)

(***************************************************************************)
(* Properties of scan_single_domain                                        *)
(***************************************************************************)

\* the coroutines of the batch that are about to write their upsert
Upserting == {t \in DOMAIN scan_tasks : scan_tasks[t].pc = "write"}

ServerInit ==
  /\ NormIdle
  /\ FeedIdle
  /\ MonitorIdle
  /\ ServerFresh
  /\ main_py_exists \in BOOLEAN

\* trigger_workflow: the handler of request r, which has no await: 400 when
\* the flag is set, else the background task is queued and 200 is answered
trigger_workflow(r) ==
  /\ trigger_pc[r] = "new"
  /\ IF workflow_status.running
     THEN /\ trigger_pc' = [trigger_pc EXCEPT ![r] = "rejected"]
          /\ response' = [response EXCEPT ![r] = 400]
     ELSE /\ trigger_pc' = [trigger_pc EXCEPT ![r] = "accepted"]
          /\ response' = [response EXCEPT ![r] = 200]
  /\ UNCHANGED <<norm_vars, feed_vars, monitor_vars, main_py_exists,
                 workflow_status, lines_written, returncode>>

\* run_main_workflow: the background task of request r, run after the
\* response was sent: it sets the flag and starts the thread
run_main_workflow(r) ==
  /\ trigger_pc[r] = "accepted"
  /\ workflow_status' = Initializing(workflow_status)
  /\ trigger_pc' = [trigger_pc EXCEPT ![r] = "thread"]
  /\ UNCHANGED <<norm_vars, feed_vars, monitor_vars, main_py_exists,
                 response, lines_written, returncode>>

\* run_workflow_sync up to Popen: main.py is missing, or Popen raises, or
\* the subprocess runs
StartProcess(r) ==
  /\ trigger_pc[r] = "thread"
  /\ IF ~main_py_exists
     THEN /\ workflow_status' = NotFound(workflow_status)
          /\ trigger_pc' = [trigger_pc EXCEPT ![r] = "finished"]
     ELSE \E raised \in BOOLEAN :
            IF raised
            THEN /\ workflow_status' = Errored(workflow_status)
                 /\ trigger_pc' = [trigger_pc EXCEPT ![r] = "finished"]
            ELSE /\ workflow_status' = workflow_status
                 /\ trigger_pc' = [trigger_pc EXCEPT ![r] = "subprocess"]
  /\ UNCHANGED <<norm_vars, feed_vars, monitor_vars, main_py_exists,
                 response, lines_written, returncode>>

\* run_workflow_sync: one pass of the loop that read a line
ReadLine(r) ==
  /\ trigger_pc[r] = "subprocess"
  /\ lines_written[r] < MaxLines
  /\ lines_written' = [lines_written EXCEPT ![r] = @ + 1]
  /\ workflow_status' = AppendLog(workflow_status, r)
  /\ UNCHANGED <<norm_vars, feed_vars, monitor_vars, main_py_exists,
                 trigger_pc, response, returncode>>

\* the subprocess of request r ends with an exit code
ProcessExit(r) ==
  /\ trigger_pc[r] = "subprocess"
  /\ \E code \in {0, 1} : returncode' = [returncode EXCEPT ![r] = code]
  /\ trigger_pc' = [trigger_pc EXCEPT ![r] = "exited"]
  /\ UNCHANGED <<norm_vars, feed_vars, monitor_vars, main_py_exists,
                 workflow_status, response, lines_written>>

\* run_workflow_sync after the loop: the verdict and the finally clause
WorkflowEnd(r) ==
  /\ trigger_pc[r] = "exited"
  /\ workflow_status' = Completed(workflow_status, returncode[r])
  /\ trigger_pc' = [trigger_pc EXCEPT ![r] = "finished"]
  /\ UNCHANGED <<norm_vars, feed_vars, monitor_vars, main_py_exists,
                 response, lines_written, returncode>>

ServerNext ==
  \E r \in Triggers :
    \/ trigger_workflow(r)
    \/ run_main_workflow(r)
    \/ StartProcess(r)
    \/ ReadLine(r)
    \/ ProcessExit(r)
    \/ WorkflowEnd(r)

ServerSpec == ServerInit /\ [][ServerNext]_vars

\* the requests whose workflow subprocess is running
Subprocesses == {r \in Triggers : trigger_pc[r] = "subprocess"}

\* the workflow that request q started has not finished
Unfinished(q) == trigger_pc[q] \in {"accepted", "thread", "subprocess", "exited"}

\* C33: at most one workflow subprocess runs at a time, and a request that
\* is handled while the workflow started by another request has not
\* finished is answered with 400.
C33_SingleWorkflow ==
  /\ [](Cardinality(Subprocesses) <= 1)
  /\ [][\A r \in Triggers :
          (/\ trigger_pc[r] = "new"
           /\ trigger_pc'[r] # "new"
           /\ \E q \in Triggers \ {r} : Unfinished(q))
          => response'[r] = 400]_vars

(***************************************************************************)
(* The screenshot index and the files it points to                         *)
(***************************************************************************)

\* C34: while no capture attempt is in flight, every entry of the
\* screenshot index points to a file that exists in the screenshot directory
\* and passes the minimum-size check: an attempt that failed in both tiers
\* left the file of the unchanged entry as it was.
C34_IndexedArtifactValid ==
  capture_tasks = <<>> =>
    \A d \in DOMAIN index : is_valid_screenshot(SCREENSHOT_DIR[Filename(d)])

(***************************************************************************)
(* Liveness flag and fingerprint of a scan                                 *)
(***************************************************************************)

\* a value that stands for "no fingerprint": NULL or the empty string
NoFingerprint(h) == h = None \/ h = ""

SameFingerprint(g, h) == g = h \/ (NoFingerprint(g) /\ NoFingerprint(h))

\* the rows the step adds to domain_history
AddedHistory == BagToSet(history' (-) history)

\* C35: every record has is_active true exactly when its content_hash is
\* not empty; the record a scan upserts and the history row the same scan
\* appends both carry the liveness flag and the fingerprint the scan found
\* (no fingerprint is the empty string in the record and NULL in the
\* history row).
C35_LivenessMatchesFingerprint ==
  /\ [](\A d \in DOMAIN registry :
          registry[d].is_active <=> registry[d].content_hash # "")
  /\ [][\A t \in DOMAIN scan_tasks :
          /\ (scan_tasks[t].pc = "write" /\ scan_tasks'[t].pc = "history") =>
               /\ registry'[scan_tasks[t].domain].is_active = scan_tasks[t].is_active
               /\ SameFingerprint(registry'[scan_tasks[t].domain].content_hash,
                                  scan_tasks[t].content_hash)
               /\ scan_tasks'[t].is_active = scan_tasks[t].is_active
               /\ scan_tasks'[t].content_hash = scan_tasks[t].content_hash
          /\ (scan_tasks[t].pc = "history" /\ scan_tasks'[t].pc = "done") =>
               \E e \in AddedHistory :
                 /\ e.domain_id = registry[scan_tasks[t].domain].id
                 /\ e.is_active = scan_tasks[t].is_active
                 /\ SameFingerprint(e.content_hash, scan_tasks[t].content_hash)]_vars

\* C35 witness: a second scan found a site down that the first scan had
\* found up: its record is inactive with an empty content_hash and its
\* history holds an inactive row without fingerprint after an active one
\* with a fingerprint; a coroutine of the same scan wrote both.
C35_Witness ==
  /\ clock = 2
  /\ \E t \in DOMAIN scan_tasks :
       /\ scan_tasks[t].pc = "done"
       /\ ~scan_tasks[t].is_active
       /\ scan_tasks[t].domain \in DOMAIN registry
       /\ ~registry[scan_tasks[t].domain].is_active
       /\ registry[scan_tasks[t].domain].content_hash = ""
       /\ \E e \in BagToSet(history) :
            /\ e.domain_id = registry[scan_tasks[t].domain].id
            /\ e.checked_at = 2 /\ ~e.is_active /\ e.content_hash = None
       /\ \E e \in BagToSet(history) :
            /\ e.domain_id = registry[scan_tasks[t].domain].id
            /\ e.checked_at = 1 /\ e.is_active /\ e.content_hash = "h1"

(***************************************************************************)
(* InterruptSpec: scans that are interrupted between the two commits of    *)
(* scan_single_domain                                                      *)
(***************************************************************************)

InterruptInit ==
  /\ NormIdle
  /\ ServerIdle
  /\ AfterFeed({sorted(<<pay_absa, absa_net>>)}, {<<>>})
  /\ MonitorIdle

\* the process is killed during a scan: the coroutines are gone, what was
\* committed to the database stays
ScanKilled ==
  /\ workflow_pc = "scanning"
  /\ workflow_pc' = "idle"
  /\ scan_runs' = scan_runs + 1
  /\ scan_i' = 0
  /\ scan_tasks' = <<>>
  /\ domain_data' = <<>>
  /\ prioritized' = <<>>
  /\ UNCHANGED <<norm_vars, server_vars, feed_vars, registry, row_count, history, clock,
                 unreachable, available_vars, capture_vars>>

\* add_history_entry raises (the database is locked, the disk is full): the
\* coroutine ends with the exception, which gather collects
HistoryFails(t) ==
  /\ workflow_pc = "scanning"
  /\ t \in DOMAIN scan_tasks
  /\ scan_tasks[t].pc = "history"
  /\ scan_tasks' = [scan_tasks EXCEPT ![t].pc = "raised"]
  /\ UNCHANGED <<norm_vars, server_vars, feed_vars, registry, row_count, history, workflow_pc,
                 clock, unreachable, domain_data, prioritized, scan_i, scan_runs,
                 available_vars, capture_vars>>

InterruptNext ==
  \/ ScanRun
  \/ ScanSteps
  \/ ScanKilled
  \/ \E t \in 1..scan_max_concurrent : HistoryFails(t)

InterruptSpec == InterruptInit /\ [][InterruptNext]_vars

\* no coroutine is between its upsert and its history row
NoneBetweenCommits ==
  \A t \in DOMAIN scan_tasks : scan_tasks[t].pc # "history"

\* C36: unless a coroutine is between its two commits, every record of the
\* registry has a history row of its id whose checked_at is the record's
\* last_checked.
C36_HistoryOfEveryWrite ==
  NoneBetweenCommits =>
    \A d \in DOMAIN registry :
      \E e \in BagToSet(history) :
        e.domain_id = registry[d].id /\ e.checked_at = registry[d].last_checked

====
